---------------------------- MODULE Spec2Model ----------------------------
(***************************************************************************)
(* Telemetry ingestion and alerting pipeline of PMS_BACKEND (src/server.js) *)
(*                                                                         *)
(* JavaScript objects are modelled as functions whose DOMAIN is the set of  *)
(* keys present: `k \in DOMAIN obj` is "obj[k] is defined".  An async       *)
(* function is cut at its awaits: one action runs the code from one await   *)
(* to the next, which is what Node's single-threaded event loop executes    *)
(* without interleaving.  Instants are milliseconds since the server        *)
(* started (Date.now() minus a fixed offset): the code only ever subtracts  *)
(* and compares instants.                                                   *)
(***************************************************************************)
EXTENDS Integers, Sequences, FiniteSets, TLC

VARIABLES
    now,                \* Date.now(), ms since the server started
    ticks,              \* how many times the clock has advanced
    users,              \* Firestore collection "users", in query order
    liveDataCache,      \* { deviceId: { data, lastUpdated } }
    historyCache,       \* { deviceId: [last 2 days data] }
    userSettingsCache,  \* { deviceId: { noAeratorsLine1, ... } }
    alertStateCache,    \* { deviceId: { active, lastAlert } }
    calls,              \* the processDeviceData invocations, in start order
    resp,               \* the response sent by the step just taken, if any
    responseControl     \* { deviceId: { code } } of part_000

vars == << now, ticks, users, liveDataCache, historyCache, userSettingsCache,
           alertStateCache, calls, resp, responseControl >>

caches == << liveDataCache, historyCache, userSettingsCache, alertStateCache >>

-----------------------------------------------------------------------------
(* Bounds of the model *)

MaxCalls == 2

MaxSeqCalls == 3

MaxReadCalls == 2

MaxTicks == 1

(* Program constants *)

TWO_DAYS == 2 * 24 * 60 * 60 * 1000

LIVE_TIMEOUT == 30000

\* The JavaScript number Infinity: larger than every reading and threshold
Infinity == 1000000000

-----------------------------------------------------------------------------
(* JavaScript helpers *)

\* Mutant of Put: the assignment writes every entry of the object
PutAll(obj, k, v) == [x \in (DOMAIN obj) \cup {k} |-> v]

\* obj[k] = v on a plain object
Put(obj, k, v) == [x \in (DOMAIN obj) \cup {k} |-> IF x = k THEN v ELSE obj[x]]

\* rec.f || dflt, for a numeric field: undefined and 0 are falsy
OrField(rec, f, dflt) ==
    IF f \in DOMAIN rec /\ rec[f] # 0 THEN rec[f] ELSE dflt

\* rec.f ?? dflt: only undefined (null) is replaced
NullishField(rec, f, dflt) == IF f \in DOMAIN rec THEN rec[f] ELSE dflt

\* a truthy string field
Truthy(rec, f) == f \in DOMAIN rec /\ rec[f] # ""

\* Mutant of MathRound: Math.floor(n / d)
MathFloor(n, d) ==
    IF d > 0 THEN n \div d
    ELSE IF d < 0 THEN (-n) \div (-d)
    ELSE IF n < 0 THEN -Infinity ELSE Infinity

\* Math.round(n / d) for integers n and d: floor(n/d + 1/2).  n / 0 is
\* Infinity, -Infinity or (for 0 / 0) NaN, which Math.round returns as they
\* are; NaN stands as Infinity here, every `NaN < x` and `Infinity < x` of
\* the evaluator being false alike.
MathRound(n, d) ==
    IF d > 0 THEN (2 * n + d) \div (2 * d)
    ELSE IF d < 0 THEN (2 * (-n) + (-d)) \div (2 * (-d))
    ELSE IF n < 0 THEN -Infinity ELSE Infinity

\* array.filter(keep)
RECURSIVE Filter(_, _)
Filter(s, cutoff) ==
    IF s = << >> THEN << >>
    ELSE IF Head(s).timestamp >= cutoff
         THEN << Head(s) >> \o Filter(Tail(s), cutoff)
         ELSE Filter(Tail(s), cutoff)


-----------------------------------------------------------------------------
(* The environment: devices, the "users" directory, inbound payloads *)

DeviceIds == {"d1", "d2"}

\* The directory: three recipients of d1 (the second has no push token, the
\* third leaves the thresholds unset), none of d2.
InitUsers ==
    << [id |-> "u1", deviceId |-> "d1", fcmToken |-> "t1",
        noAeratorsLine1 |-> 2, perAerator_currentLine1 |-> 1],
       [id |-> "u2", deviceId |-> "d1",
        noAeratorsLine1 |-> 4, perAerator_currentLine1 |-> 1],
       [id |-> "u3", deviceId |-> "d1", fcmToken |-> "t3"] >>

\* Inbound JSON bodies: without device_id, with an empty one, and readings
\* of d1 (line1 = 1 is below u1's lower bound 2, line1 = 5 is not) and d2.
Payloads ==
    { [line1 |-> 1],
      [device_id |-> "", line1 |-> 1],
      [device_id |-> "d1", line1 |-> 1],
      [device_id |-> "d1", line1 |-> 5],
      [device_id |-> "d2", line1 |-> 1] }

\* Clock advances.  With concurrent invocations the clock advances by one
\* millisecond, which is what orders the timestamps of two readings.  Where
\* the caches are read back, it advances by exactly the liveness timeout (an
\* entry of that age is still live) and by one millisecond more than the
\* retention window (a reading of that age is expired).
TickSteps == {1}

ReadTickSteps == {LIVE_TIMEOUT, TWO_DAYS + 1}

\* Mutant of QueryUsers: the query without its where clause
QueryAllUsers(d) == users

\* firestore.collection("users").where("deviceId", "==", d).get(): .docs
QueryUsers(d) == SelectSeq(users, LAMBDA u : u.deviceId = d)

-----------------------------------------------------------------------------
(* Pure parts of processDeviceData *)

\* Mutant of HasDeviceId: only a missing device_id is refused
HasDeviceIdKey(data) == "device_id" \in DOMAIN data

\* !data.device_id is false
HasDeviceId(data) == Truthy(data, "device_id")

\* formatData(device_id, payload, firestoreTimestamp); the third argument is
\* << >> when the caller passes none.
FormatData(device_id, payload, firestoreTimestamp) ==
    [device_id     |-> device_id,
     line1         |-> NullishField(payload, "line1", 0),
     line2         |-> NullishField(payload, "line2", 0),
     temperature   |-> NullishField(payload, "temperature", 0),
     turbidity     |-> NullishField(payload, "turbidity", 0),
     ph            |-> NullishField(payload, "ph", 0),
     do            |-> NullishField(payload, "do", 0),
     tds           |-> NullishField(payload, "tds", 0),
     relay1_status |-> NullishField(payload, "relay1_status", 0),
     relay2_status |-> NullishField(payload, "relay2_status", 0),
     timestamp     |-> IF firestoreTimestamp # << >> THEN firestoreTimestamp[1]
                       ELSE now]

\* Mutant of Push: the reading is put in front of the array
Unshift(history, formatted) == << formatted >> \o history

\* historyCache[data.device_id].push(formatted)
Push(history, formatted) == Append(history, formatted)

\* Mutant of EvictOld: the filter keeps a reading one millisecond too long
EvictOldLate(history, cutoff) == Filter(history, cutoff - 1)

\* historyCache[d].filter(item => item.timestamp.toMillis() >= cutoff)
EvictOld(history, cutoff) == Filter(history, cutoff)

\* The settings derived from the first matching user record
SettingsOf(firstUser) ==
    [noAeratorsLine1         |-> OrField(firstUser, "noAeratorsLine1", 0),
     noAeratorsLine2         |-> OrField(firstUser, "noAeratorsLine2", 0),
     perAerator_currentLine1 |-> OrField(firstUser, "perAerator_currentLine1", 1),
     perAerator_currentLine2 |-> OrField(firstUser, "perAerator_currentLine2", 1)]

\* Mutant of Divisor: only an absent setting is replaced by 1
DivisorUnguarded(deviceSettings, f) == NullishField(deviceSettings, f, 1)

\* (deviceSettings.perAerator_currentLineN || 1): what the line is divided by
Divisor(deviceSettings, f) == OrField(deviceSettings, f, 1)

Ratio1(formatted, deviceSettings) ==
    MathRound(formatted.line1, Divisor(deviceSettings, "perAerator_currentLine1"))

Ratio2(formatted, deviceSettings) ==
    MathRound(formatted.line2, Divisor(deviceSettings, "perAerator_currentLine2"))

\* alertMsg, as the sequence of the lines it names; << >> is the empty string
AlertMsg(formatted, deviceSettings) ==
    (IF Ratio1(formatted, deviceSettings) < OrField(deviceSettings, "noAeratorsLine1", 0)
     THEN << "Line1" >> ELSE << >>)
    \o
    (IF Ratio2(formatted, deviceSettings) < OrField(deviceSettings, "noAeratorsLine2", 0)
     THEN << "Line2" >> ELSE << >>)

\* alertStateCache[d] || { active: false }
AlertStateOf(d) ==
    IF d \in DOMAIN alertStateCache THEN alertStateCache[d] ELSE [active |-> FALSE]

\* Mutant of MustDispatch: every violating reading dispatches
MustDispatchAlways(deviceAlertState) == TRUE

\* if (!deviceAlertState.active): the guard of the dispatch
MustDispatch(deviceAlertState) == ~deviceAlertState.active

\* The index of the first doc at or after i with a truthy fcmToken, or
\* Len(docs) + 1: the for loop skipping the docs without a token.
RECURSIVE NextWithToken(_, _)
NextWithToken(docs, i) ==
    IF i > Len(docs) THEN i
    ELSE IF Truthy(docs[i], "fcmToken") THEN i
    ELSE NextWithToken(docs, i + 1)

\* Mutant of AfterSend: a rejected send is not caught and ends the loop
AfterSendAbort(docs, i, ok) ==
    IF ok THEN NextWithToken(docs, i + 1) ELSE Len(docs) + 1

\* The doc the loop goes to after the send to docs[i] settled: the try/catch
\* around the send makes a failed send continue like a successful one.
AfterSend(docs, i, ok) == NextWithToken(docs, i + 1)

-----------------------------------------------------------------------------
(* The state of one processDeviceData invocation *)

\* pc: "set"         awaiting firestore...set(formatted)            (line 89)
\*     "getSettings" awaiting the users query of the cache miss     (line 114)
\*     "getUsers"    awaiting the users query before the evaluation (line 133)
\*     "send"        awaiting admin.messaging().send(message)       (line 174)
\*     "done"        returned; "failed": threw
\* io is the list of the external calls issued so far, settled the list of
\* their outcomes (TRUE: resolved, FALSE: rejected); startedWhile is the set
\* of the invocations that were suspended when this one was invoked.
NewCall(data) ==
    [pc               |-> "failed",
     data             |-> data,
     formatted        |-> << >>,
     deviceSettings   |-> << >>,
     snapshot         |-> << >>,
     alertMsg         |-> << >>,
     deviceAlertState |-> << >>,
     i                |-> 0,
     alertSent        |-> FALSE,
     noAlertNeeded    |-> TRUE,
     io               |-> << >>,
     settled          |-> << >>,
     logs             |-> << >>,
     startedWhile     |-> {j \in 1..Len(calls) : calls[j].pc \notin {"done", "failed"}},
     error            |-> "device_id required"]

Issue(c, op, to) == Append(c.io, [op |-> op, to |-> to])

Running(c) == c.pc \notin {"done", "failed"}

\* No response was sent by the step
NoResp == [op |-> "none"]

Init ==
    /\ now = 0
    /\ ticks = 0
    /\ responseControl = << >>
    /\ users = InitUsers
    /\ liveDataCache = << >>
    /\ historyCache = << >>
    /\ userSettingsCache = << >>
    /\ alertStateCache = << >>
    /\ calls = << >>
    /\ resp = NoResp

\* Mutant of Caught: the error is not caught, the process ends on the
\* unhandled rejection
Uncaught == [op |-> "crash"]

\* catch (err) { console.error(...) } of the message handler: the error is
\* logged, the handler returns, nothing is answered
Caught == NoResp

\* processDeviceData(data) is invoked and runs up to its first await.
Invoke(data) ==
    /\ calls' = Append(calls,
          IF ~HasDeviceId(data) THEN NewCall(data)
          ELSE [NewCall(data) EXCEPT
                  !.pc = "set",
                  !.formatted = << FormatData(data.device_id, data, << >>) >>,
                  !.io = << [op |-> "set", to |-> data.device_id] >>,
                  !.error = ""])
    /\ resp' = IF ~HasDeviceId(data) THEN Caught ELSE NoResp
    /\ UNCHANGED << now, ticks, responseControl, users, caches >>

\* A message arrives on the MQTT topic while other invocations may be running.
MqttMessage(data) ==
    /\ Len(calls) < MaxCalls
    /\ Invoke(data)

\* The awaited call of invocation k throws: processDeviceData rejects and
\* the handler's catch logs the error.
Reject(k) ==
    /\ calls' = [calls EXCEPT ![k].pc = "failed",
                              ![k].settled = Append(@, FALSE),
                              ![k].error = calls[k].pc]
    /\ resp' = Caught
    /\ UNCHANGED << now, ticks, responseControl, users, caches >>

\* Mutant of HasSettings: the cached settings are never found
HasSettingsNever(d) == FALSE

\* !deviceSettings is false for deviceSettings = userSettingsCache[d]
HasSettings(d) == d \in DOMAIN userSettingsCache

\* The durable write settled; on success the caches are updated and the
\* settings are looked up.
FirestoreSetDone(k, ok) ==
    /\ k \in 1..Len(calls)
    /\ calls[k].pc = "set"
    /\ IF ~ok THEN Reject(k)
       ELSE LET c == calls[k]
                d == c.data.device_id
                formatted == c.formatted[1]
                old == IF d \in DOMAIN historyCache THEN historyCache[d] ELSE << >>
                cached == HasSettings(d)
            IN /\ liveDataCache' =
                     Put(liveDataCache, d, [data |-> formatted, lastUpdated |-> now])
               /\ historyCache' =
                     Put(historyCache, d, EvictOld(Push(old, formatted), now - TWO_DAYS))
               /\ calls' = [calls EXCEPT
                     ![k].pc = IF cached THEN "getUsers" ELSE "getSettings",
                     ![k].deviceSettings =
                         IF cached THEN << userSettingsCache[d] >> ELSE << >>,
                     ![k].io = Issue(c, "get", d),
                     ![k].settled = Append(@, TRUE),
                     ![k].logs = Append(@, "stored")]
               /\ resp' = NoResp
               /\ UNCHANGED << now, ticks, responseControl, users, userSettingsCache,
                               alertStateCache >>

\* Mutant of FirstDoc: the last record returned
LastDoc(docs) == docs[Len(docs)]

\* snapshot.docs[0].data()
FirstDoc(docs) == docs[1]

\* Lines 119-130 with the records the users query of the cache miss found:
\* the settings of the first record are cached, or the invocation returns
\* ("getSettings" falls through to line 200 when nothing was found).
SettingsResolved(k, docs) ==
    LET c == calls[k]
        d == c.data.device_id
    IN IF docs # << >>
       THEN /\ userSettingsCache' =
                  Put(userSettingsCache, d, SettingsOf(FirstDoc(docs)))
            /\ calls' = [calls EXCEPT
                  ![k].pc = "getUsers",
                  ![k].deviceSettings = << SettingsOf(FirstDoc(docs)) >>,
                  ![k].io = Issue(c, "get", d),
                  ![k].settled = Append(@, TRUE),
                  ![k].logs = Append(@, "cached")]
            /\ resp' = NoResp
            /\ UNCHANGED << now, ticks, responseControl, users, liveDataCache, historyCache,
                            alertStateCache >>
       ELSE /\ calls' = [calls EXCEPT
                  ![k].pc = "done",
                  ![k].settled = Append(@, TRUE)]
            /\ resp' = NoResp
            /\ UNCHANGED << now, ticks, responseControl, users, caches >>

\* The users query of the settings cache miss settled.
SettingsQueryDone(k, ok) ==
    /\ k \in 1..Len(calls)
    /\ calls[k].pc = "getSettings"
    /\ IF ~ok THEN Reject(k)
       ELSE SettingsResolved(k, QueryUsers(calls[k].data.device_id))

\* Mutant of MarkActive: the state is not marked active after the dispatch
MarkActiveForgotten(d) ==
    alertStateCache' = Put(alertStateCache, d, [active |-> FALSE])

\* alertStateCache[d] = { active: true, lastAlert: Date.now() }, after the loop
MarkActive(d) ==
    alertStateCache' = Put(alertStateCache, d, [active |-> TRUE, lastAlert |-> now])

\* Mutant of ClearActive: a recovery leaves the alert state as it was
ClearActiveForgotten(d) ==
    UNCHANGED alertStateCache

\* alertStateCache[d] = { active: false }, when the reading does not violate
ClearActive(d) ==
    alertStateCache' = Put(alertStateCache, d, [active |-> FALSE])

\* Mutant of SendAwaited: the send is started and not awaited, the
\* function goes on to its return
SendDetached == "done"

\* await admin.messaging().send(message): where the invocation is after it
\* issued a send
SendAwaited == "send"

\* The users query before the evaluation settled: the reading is evaluated
\* and the alert state machine takes its transition, up to the first send.
UsersQueryDone(k, ok) ==
    /\ k \in 1..Len(calls)
    /\ calls[k].pc = "getUsers"
    /\ IF ~ok THEN Reject(k)
       ELSE LET c == calls[k]
                d == c.data.device_id
                docs == QueryUsers(d)
                alertMsg == AlertMsg(c.formatted[1], c.deviceSettings[1])
                deviceAlertState == AlertStateOf(d)
                first == NextWithToken(docs, 1)
                evaluated == [c EXCEPT
                                !.snapshot = docs,
                                !.alertMsg = alertMsg,
                                !.deviceAlertState = << deviceAlertState >>,
                                !.noAlertNeeded = (alertMsg = << >>),
                                !.settled = Append(@, TRUE)]
            IN /\ IF alertMsg # << >>
                  THEN IF MustDispatch(deviceAlertState)
                       THEN IF first <= Len(docs)
                            THEN /\ calls' = [calls EXCEPT ![k] =
                                       [evaluated EXCEPT
                                          !.pc = SendAwaited,
                                          !.i = first,
                                          !.io = Issue(c, "send", docs[first].id)]]
                                 /\ UNCHANGED alertStateCache
                            ELSE /\ calls' = [calls EXCEPT ![k] =
                                       [evaluated EXCEPT !.pc = "done", !.i = first]]
                                 /\ MarkActive(d)
                       ELSE /\ calls' = [calls EXCEPT ![k] =
                                  [evaluated EXCEPT !.pc = "done"]]
                            /\ UNCHANGED alertStateCache
                  ELSE /\ calls' = [calls EXCEPT ![k] =
                             [evaluated EXCEPT
                                !.pc = "done",
                                !.logs = IF deviceAlertState.active
                                         THEN Append(@, "recovered") ELSE @]]
                       /\ ClearActive(d)
               /\ resp' = NoResp
               /\ UNCHANGED << now, ticks, responseControl, users, liveDataCache, historyCache,
                               userSettingsCache >>

\* Mutant of AlertSentAfter: the flag tells how the last send ended
AlertSentLast(alertSent, ok) == ok

\* alertSent after a send settled: set to true in the try block, after the
\* awaited send resolved, and never reset
AlertSentAfter(alertSent, ok) == alertSent \/ ok

\* Mutant of SendCaught: the rejection of a send is not caught
SendCaughtNever(ok) == ok

\* try { await admin.messaging().send(message) } catch (err) { log }: the
\* catch clause takes every rejection of the send
SendCaught(ok) == TRUE

\* A push send settled, resolved (ok) or rejected: the loop goes on to the
\* next doc with a token, and after the last one the state is marked active.
FcmSendDone(k, ok) ==
    /\ k \in 1..Len(calls)
    /\ calls[k].pc = "send"
    /\ IF ~SendCaught(ok) THEN Reject(k) ELSE
       /\ LET c == calls[k]
              d == c.data.device_id
              next == AfterSend(c.snapshot, c.i, ok)
              sent == [c EXCEPT
                         !.alertSent = AlertSentAfter(@, ok),
                         !.settled = Append(@, ok),
                         !.logs = IF ok THEN @ ELSE Append(@, "fcm-failed"),
                         !.i = next]
          IN IF next <= Len(c.snapshot)
             THEN /\ calls' = [calls EXCEPT ![k] =
                        [sent EXCEPT !.io = Issue(c, "send", c.snapshot[next].id)]]
                  /\ UNCHANGED alertStateCache
             ELSE /\ calls' = [calls EXCEPT ![k] = [sent EXCEPT !.pc = "done"]]
                  /\ MarkActive(d)
       /\ resp' = NoResp
       /\ UNCHANGED << now, ticks, responseControl, users, liveDataCache, historyCache,
                       userSettingsCache >>

\* Time passes.
Tick(dt) ==
    /\ ticks < MaxTicks
    /\ now' = now + dt
    /\ ticks' = ticks + 1
    /\ resp' = NoResp
    /\ UNCHANGED << users, responseControl, caches, calls >>

\* Mutant of Stale: an entry exactly 30000 ms old is already stale
StaleEarly(cache, deviceId, t) ==
    \/ deviceId \notin DOMAIN cache
    \/ t - cache[deviceId].lastUpdated >= LIVE_TIMEOUT

\* if (!cacheEntry || Date.now() - cacheEntry.lastUpdated > 30000)
Stale(cache, deviceId, t) ==
    \/ deviceId \notin DOMAIN cache
    \/ t - cache[deviceId].lastUpdated > LIVE_TIMEOUT

\* Mutant of GetLiveData: a read that finds the entry stale deletes it
GetLiveDataEvicting(deviceId) ==
    /\ resp' = IF Stale(liveDataCache, deviceId, now)
               THEN [op |-> "live", deviceId |-> deviceId, code |-> 200,
                     status |-> "no_data", data |-> << >>]
               ELSE [op |-> "live", deviceId |-> deviceId, code |-> 200,
                     status |-> "ok", data |-> << liveDataCache[deviceId].data >>]
    /\ liveDataCache' =
           IF Stale(liveDataCache, deviceId, now)
           THEN [x \in (DOMAIN liveDataCache) \ {deviceId} |-> liveDataCache[x]]
           ELSE liveDataCache
    /\ UNCHANGED << now, ticks, responseControl, users, historyCache, userSettingsCache,
                    alertStateCache, calls >>

\* GET /api/data/:deviceId
GetLiveData(deviceId) ==
    /\ resp' = IF Stale(liveDataCache, deviceId, now)
               THEN [op |-> "live", deviceId |-> deviceId, code |-> 200,
                     status |-> "no_data", data |-> << >>]
               ELSE [op |-> "live", deviceId |-> deviceId, code |-> 200,
                     status |-> "ok", data |-> << liveDataCache[deviceId].data >>]
    /\ UNCHANGED << now, ticks, responseControl, users, caches, calls >>

\* Mutant of StoredHistory: the window of a device that is not live is
\* withheld
StoredHistoryIfLive(deviceId) ==
    IF deviceId \in DOMAIN historyCache /\ ~Stale(liveDataCache, deviceId, now)
    THEN historyCache[deviceId] ELSE << >>

\* historyCache[deviceId] || []
StoredHistory(deviceId) ==
    IF deviceId \in DOMAIN historyCache THEN historyCache[deviceId] ELSE << >>

\* GET /api/history/:deviceId
GetHistory(deviceId) ==
    /\ LET history == StoredHistory(deviceId)
       IN resp' = [op |-> "history", deviceId |-> deviceId, code |-> 200,
                   status |-> IF Len(history) # 0 THEN "ok" ELSE "no_data",
                   data |-> history]
    /\ UNCHANGED << now, ticks, responseControl, users, caches, calls >>

\* The ingestion pipeline with concurrent invocations.  The read handlers
\* change nothing the pipeline reads, so they are left to SpecRead.
Next ==
    \/ \E data \in Payloads : MqttMessage(data)
    \/ \E k \in 1..Len(calls), ok \in BOOLEAN : FirestoreSetDone(k, ok)
    \/ \E k \in 1..Len(calls), ok \in BOOLEAN : SettingsQueryDone(k, ok)
    \/ \E k \in 1..Len(calls), ok \in BOOLEAN : UsersQueryDone(k, ok)
    \/ \E k \in 1..Len(calls), ok \in BOOLEAN : FcmSendDone(k, ok)
    \/ \E dt \in TickSteps : Tick(dt)

Spec == Init /\ [][Next]_vars


\* Readings fed one at a time: a message is delivered only when every
\* earlier invocation has returned or thrown.
NoneRunning == \A k \in 1..Len(calls) : ~Running(calls[k])

Feed(data) ==
    /\ NoneRunning
    /\ Len(calls) < MaxSeqCalls
    /\ Invoke(data)

FeedRead(data) ==
    /\ NoneRunning
    /\ Len(calls) < MaxReadCalls
    /\ Invoke(data)

NextSeq ==
    \/ \E data \in Payloads : Feed(data)
    \/ \E k \in 1..Len(calls), ok \in BOOLEAN : FirestoreSetDone(k, ok)
    \/ \E k \in 1..Len(calls), ok \in BOOLEAN : SettingsQueryDone(k, ok)
    \/ \E k \in 1..Len(calls), ok \in BOOLEAN : UsersQueryDone(k, ok)
    \/ \E k \in 1..Len(calls), ok \in BOOLEAN : FcmSendDone(k, ok)
    \/ \E dt \in TickSteps : Tick(dt)

SpecSeq == Init /\ [][NextSeq]_vars

\* The read handlers, interleaved anywhere with readings fed one at a time.
NextRead ==
    \/ \E data \in Payloads : FeedRead(data)
    \/ \E k \in 1..Len(calls), ok \in BOOLEAN : FirestoreSetDone(k, ok)
    \/ \E k \in 1..Len(calls), ok \in BOOLEAN : SettingsQueryDone(k, ok)
    \/ \E k \in 1..Len(calls), ok \in BOOLEAN : UsersQueryDone(k, ok)
    \/ \E k \in 1..Len(calls), ok \in BOOLEAN : FcmSendDone(k, ok)
    \/ \E dt \in ReadTickSteps : Tick(dt)
    \/ \E deviceId \in DeviceIds : GetLiveData(deviceId)
    \/ \E deviceId \in DeviceIds : GetHistory(deviceId)

SpecRead == Init /\ [][NextRead]_vars

-----------------------------------------------------------------------------
(* The variant src/unnamed/part_000: voice escalation after the pushes.  Its
   processDeviceData keeps a boolean per device in alertStateCache and sets
   it before the dispatch; the invocations of the two programs never share a
   run. *)

MaxEitherCalls == 2

MaxDelays == 2

\* setTimeout(resolve, 60000) between two calls
CALL_DELAY == 60000

\* The numbers makeCallsSequentially is given
ESCALATION_NUMBERS == << "+917661912957", "+918897618973" >>

\* HARDCODED_SENSORS, in tenths
HARDCODED_SENSORS ==
    [temperature |-> 295, turbidity |-> 157, ph |-> 71, do |-> 69, tds |-> 2603]

\* Object.assign(target, source), { ...target, ...source }
Assign(target, source) ==
    [x \in (DOMAIN target) \cup (DOMAIN source) |->
        IF x \in DOMAIN source THEN source[x] ELSE target[x]]

\* formatData(device_id, payload) of part_000, for numeric line values:
\* Number(x) || 0 is x, and 0 for a missing one
P0_FormatData(device_id, payload) ==
    Assign(Assign(Assign([device_id     |-> device_id,
                          line1         |-> OrField(payload, "line1", 0),
                          line2         |-> OrField(payload, "line2", 0),
                          relay1_status |-> NullishField(payload, "relay1_status", 0),
                          relay2_status |-> NullishField(payload, "relay2_status", 0)],
                         payload),
                  HARDCODED_SENSORS),
           [timestamp |-> now])

\* line1Low, line2Low and the message they select, as the lines it names
P0_AlertMsg(formatted, deviceSettings) ==
    LET line1Low == Ratio1(formatted, deviceSettings)
                       < OrField(deviceSettings, "noAeratorsLine1", 0)
        line2Low == Ratio2(formatted, deviceSettings)
                       < OrField(deviceSettings, "noAeratorsLine2", 0)
    IN IF line1Low /\ line2Low THEN << "Line1", "Line2" >>
       ELSE IF line1Low THEN << "Line1" >>
       ELSE IF line2Low THEN << "Line2" >>
       ELSE << >>

\* alertStateCache[deviceId] || false
P0_PreviouslyAlerting(d) ==
    IF d \in DOMAIN alertStateCache THEN alertStateCache[d] ELSE FALSE

\* pc: "p0.set"         awaiting firestore...set(formatted)         (line 144)
\*     "p0.getSettings" awaiting the users query of the cache miss  (line 164)
\*     "p0.getUsers"    awaiting the users query of the new alert   (line 220)
\*     "p0.send"        awaiting admin.messaging().send(message)    (line 246)
\*     "p0.call"        awaiting client.calls.create(...)           (line 19)
\*     "p0.delay"       awaiting the 60 s timer after a call        (line 38)
\* n is the index of the number being called, timer the instant the delay
\* elapses.
P0_NewCall(data) ==
    Assign(NewCall(data), [alertTriggered |-> FALSE, n |-> 0, timer |-> 0])

P0_IsCall(c) == "alertTriggered" \in DOMAIN c

\* processDeviceData(data) of part_000 is invoked and runs up to its first await.
P0_Started(data) ==
    IF ~HasDeviceId(data) THEN P0_NewCall(data)
    ELSE [P0_NewCall(data) EXCEPT
            !.pc = "p0.set",
            !.formatted = << P0_FormatData(data.device_id, data) >>,
            !.io = << [op |-> "set", to |-> data.device_id] >>,
            !.error = ""]

P0_Invoke(data) ==
    /\ calls' = Append(calls, P0_Started(data))
    /\ resp' = NoResp
    /\ UNCHANGED << now, ticks, responseControl, users, caches >>

\* Mutant of P0_MarkActive: the state is left for after the dispatch
P0_MarkActiveLate(d) == UNCHANGED alertStateCache

\* alertStateCache[deviceId] = true, before the first await of the new alert
P0_MarkActive(d) == alertStateCache' = Put(alertStateCache, d, TRUE)

\* Lines 185-271, run without an await once the settings are known: the
\* evaluation and the alert handling up to the users query of a new alert.
\* c is the invocation's record with what the step did before.
P0_AlertHandling(k, c, deviceSettings) ==
    LET d == c.data.device_id
        alertMsg == P0_AlertMsg(c.formatted[1], deviceSettings)
        currentlyAlerting == alertMsg # << >>
        previouslyAlerting == P0_PreviouslyAlerting(d)
        evaluated == [c EXCEPT
                        !.deviceSettings = << deviceSettings >>,
                        !.alertMsg = alertMsg,
                        !.deviceAlertState = << [active |-> previouslyAlerting] >>,
                        !.noAlertNeeded = ~currentlyAlerting]
    IN IF currentlyAlerting /\ ~previouslyAlerting
       THEN /\ P0_MarkActive(d)
            /\ calls' = [calls EXCEPT ![k] =
                  [evaluated EXCEPT
                     !.pc = "p0.getUsers",
                     !.io = Append(@, [op |-> "get", to |-> d]),
                     !.logs = Append(@, "new-alert")]]
       ELSE IF ~currentlyAlerting /\ previouslyAlerting
       THEN /\ alertStateCache' = Put(alertStateCache, d, FALSE)
            /\ calls' = [calls EXCEPT ![k] =
                  [evaluated EXCEPT !.pc = "done", !.logs = Append(@, "recovered")]]
       ELSE /\ UNCHANGED alertStateCache
            /\ calls' = [calls EXCEPT ![k] =
                  [evaluated EXCEPT
                     !.pc = "done",
                     !.logs = IF currentlyAlerting THEN @ ELSE Append(@, "no-alert")]]

\* The durable write settled.
P0_FirestoreSetDone(k, ok) ==
    /\ k \in 1..Len(calls)
    /\ calls[k].pc = "p0.set"
    /\ IF ~ok THEN Reject(k)
       ELSE LET c == calls[k]
                d == c.data.device_id
                formatted == c.formatted[1]
                old == IF d \in DOMAIN historyCache THEN historyCache[d] ELSE << >>
                stored == [c EXCEPT !.settled = Append(@, TRUE),
                                    !.logs = Append(@, "stored")]
            IN /\ liveDataCache' =
                     Put(liveDataCache, d, [data |-> formatted, lastUpdated |-> now])
               /\ historyCache' =
                     Put(historyCache, d, EvictOld(Push(old, formatted), now - TWO_DAYS))
               /\ IF HasSettings(d)
                  THEN P0_AlertHandling(k, stored, userSettingsCache[d])
                  ELSE /\ calls' = [calls EXCEPT ![k] =
                             [stored EXCEPT
                                !.pc = "p0.getSettings",
                                !.io = Append(@, [op |-> "get", to |-> d])]]
                       /\ UNCHANGED alertStateCache
               /\ resp' = NoResp
               /\ UNCHANGED << now, ticks, responseControl, users, userSettingsCache >>

\* The users query of the settings cache miss settled.
P0_SettingsQueryDone(k, ok) ==
    /\ k \in 1..Len(calls)
    /\ calls[k].pc = "p0.getSettings"
    /\ IF ~ok THEN Reject(k)
       ELSE LET c == calls[k]
                d == c.data.device_id
                docs == QueryUsers(d)
                answered == [c EXCEPT !.settled = Append(@, TRUE)]
            IN /\ IF docs # << >>
                  THEN /\ userSettingsCache' =
                             Put(userSettingsCache, d, SettingsOf(FirstDoc(docs)))
                       /\ P0_AlertHandling(k,
                             [answered EXCEPT !.logs = Append(@, "cached")],
                             SettingsOf(FirstDoc(docs)))
                  ELSE /\ calls' = [calls EXCEPT ![k] = [answered EXCEPT !.pc = "done"]]
                       /\ UNCHANGED << userSettingsCache, alertStateCache >>
               /\ resp' = NoResp
               /\ UNCHANGED << now, ticks, responseControl, users, liveDataCache, historyCache >>

\* makeCallsSequentially starts: the first call is attempted.  c is the
\* invocation's record after the last push.
P0_StartCalls(c) ==
    [c EXCEPT !.pc = "p0.call",
              !.n = 1,
              !.io = Append(@, [op |-> "call", to |-> ESCALATION_NUMBERS[1]])]

\* The loop of makeCallsSequentially goes on after the attempt at number n:
\* the next number is called, or after the last one processDeviceData
\* returns with alertTriggered = true.
P0_NextCall(c) ==
    IF c.n < Len(ESCALATION_NUMBERS)
    THEN [c EXCEPT !.pc = "p0.call",
                   !.n = @ + 1,
                   !.io = Append(@, [op |-> "call", to |-> ESCALATION_NUMBERS[c.n + 1]])]
    ELSE [c EXCEPT !.pc = "done", !.alertTriggered = TRUE,
                   !.logs = Append(@, "calls-placed")]

\* The users query of the new alert settled; a rejection leaves
\* processDeviceData with the alert state already set.
P0_UsersQueryDone(k, ok) ==
    /\ k \in 1..Len(calls)
    /\ calls[k].pc = "p0.getUsers"
    /\ IF ~ok THEN Reject(k)
       ELSE LET c == calls[k]
                docs == QueryUsers(c.data.device_id)
                first == NextWithToken(docs, 1)
                answered == [c EXCEPT !.snapshot = docs,
                                      !.i = first,
                                      !.settled = Append(@, TRUE)]
            IN /\ calls' = [calls EXCEPT ![k] =
                     IF first <= Len(docs)
                     THEN [answered EXCEPT
                             !.pc = "p0.send",
                             !.io = Append(@, [op |-> "send", to |-> docs[first].id])]
                     ELSE P0_StartCalls(answered)]
               /\ resp' = NoResp
               /\ UNCHANGED << now, ticks, responseControl, users, caches >>

\* A push send settled: the loop goes on to the next doc with a token, and
\* after the last one the calls start.
P0_FcmSendDone(k, ok) ==
    /\ k \in 1..Len(calls)
    /\ calls[k].pc = "p0.send"
    /\ IF ~SendCaught(ok) THEN Reject(k) ELSE
       /\ LET c == calls[k]
              next == AfterSend(c.snapshot, c.i, ok)
              sent == [c EXCEPT
                         !.alertSent = AlertSentAfter(@, ok),
                         !.settled = Append(@, ok),
                         !.logs = IF ok THEN @ ELSE Append(@, "fcm-failed"),
                         !.i = next]
          IN calls' = [calls EXCEPT ![k] =
                IF next <= Len(c.snapshot)
                THEN [sent EXCEPT
                        !.io = Append(@, [op |-> "send", to |-> c.snapshot[next].id])]
                ELSE P0_StartCalls(sent)]
       /\ resp' = NoResp
       /\ UNCHANGED << now, ticks, responseControl, users, caches >>

\* client.calls.create settled.  A started call is followed by the 60 s
\* delay; a failed one is rethrown by makeCall, caught by the loop of
\* makeCallsSequentially, and the loop goes on at once.
P0_CallDone(k, ok) ==
    /\ k \in 1..Len(calls)
    /\ calls[k].pc = "p0.call"
    /\ LET c == [calls[k] EXCEPT !.settled = Append(@, ok)]
       IN calls' = [calls EXCEPT ![k] =
             IF ok THEN [c EXCEPT !.pc = "p0.delay", !.timer = now + CALL_DELAY]
             ELSE P0_NextCall([c EXCEPT !.logs = Append(@, "call-failed")])]
    /\ resp' = NoResp
    /\ UNCHANGED << now, ticks, responseControl, users, caches >>

\* Mutant of DelayElapsed: the timer fires at once
DelayElapsedAtOnce(timer) == TRUE

\* setTimeout(resolve, 60000) has resolved
DelayElapsed(timer) == now >= timer

\* The 60 s timer fired.
P0_DelayDone(k) ==
    /\ k \in 1..Len(calls)
    /\ calls[k].pc = "p0.delay"
    /\ DelayElapsed(calls[k].timer)
    /\ calls' = [calls EXCEPT ![k] = P0_NextCall(calls[k])]
    /\ resp' = NoResp
    /\ UNCHANGED << now, ticks, responseControl, users, caches >>

\* Time passes by one delay.
P0_Tick ==
    /\ ticks < MaxDelays
    /\ now' = now + CALL_DELAY
    /\ ticks' = ticks + 1
    /\ \E k \in 1..Len(calls) : calls[k].pc = "p0.delay"
    /\ resp' = NoResp
    /\ UNCHANGED << users, responseControl, caches, calls >>

\* Either program, fed one reading at a time over MQTT: the first message
\* tells which program the run is of.
FeedServer(data) ==
    /\ NoneRunning
    /\ Len(calls) < MaxEitherCalls
    /\ \A k \in 1..Len(calls) : ~P0_IsCall(calls[k])
    /\ Invoke(data)

P0_Feed(data) ==
    /\ NoneRunning
    /\ Len(calls) < MaxEitherCalls
    /\ \A k \in 1..Len(calls) : P0_IsCall(calls[k])
    /\ P0_Invoke(data)

\* A user of a device that had none yet is registered in the directory (by
\* the app, outside this server); the user has no push token yet.
NewUsers ==
    { [id |-> "u4", deviceId |-> "d2", noAeratorsLine1 |-> 2] }

RegisterUser(u) ==
    /\ QueryUsers(u.deviceId) = << >>
    /\ users' = Append(users, u)
    /\ resp' = NoResp
    /\ UNCHANGED << now, ticks, responseControl, caches, calls >>

\* Readings of a device that is not in the directory at first, and a
\* violating reading of d1
MaxDirCalls == 3

DirPayloads ==
    { [device_id |-> "d2", line1 |-> 1],
      [device_id |-> "d2", line1 |-> 5],
      [device_id |-> "d1", line1 |-> 1] }

FeedServerDir(data) ==
    /\ NoneRunning
    /\ Len(calls) < MaxDirCalls
    /\ \A k \in 1..Len(calls) : ~P0_IsCall(calls[k])
    /\ Invoke(data)

P0_FeedDir(data) ==
    /\ NoneRunning
    /\ Len(calls) < MaxDirCalls
    /\ \A k \in 1..Len(calls) : P0_IsCall(calls[k])
    /\ P0_Invoke(data)

NextDir ==
    \/ \E data \in DirPayloads : FeedServerDir(data)
    \/ \E k \in 1..Len(calls), ok \in BOOLEAN : FirestoreSetDone(k, ok)
    \/ \E k \in 1..Len(calls), ok \in BOOLEAN : SettingsQueryDone(k, ok)
    \/ \E k \in 1..Len(calls), ok \in BOOLEAN : UsersQueryDone(k, ok)
    \/ \E k \in 1..Len(calls), ok \in BOOLEAN : FcmSendDone(k, ok)
    \/ \E data \in DirPayloads : P0_FeedDir(data)
    \/ \E k \in 1..Len(calls), ok \in BOOLEAN : P0_FirestoreSetDone(k, ok)
    \/ \E k \in 1..Len(calls), ok \in BOOLEAN : P0_SettingsQueryDone(k, ok)
    \/ \E k \in 1..Len(calls), ok \in BOOLEAN : P0_UsersQueryDone(k, ok)
    \/ \E k \in 1..Len(calls), ok \in BOOLEAN : P0_FcmSendDone(k, ok)
    \/ \E k \in 1..Len(calls), ok \in BOOLEAN : P0_CallDone(k, ok)
    \/ \E k \in 1..Len(calls) : P0_DelayDone(k)
    \/ P0_Tick
    \/ \E u \in NewUsers : RegisterUser(u)

SpecDir == Init /\ [][NextDir]_vars

NextEither ==
    \/ \E data \in Payloads : FeedServer(data)
    \/ \E k \in 1..Len(calls), ok \in BOOLEAN : FirestoreSetDone(k, ok)
    \/ \E k \in 1..Len(calls), ok \in BOOLEAN : SettingsQueryDone(k, ok)
    \/ \E k \in 1..Len(calls), ok \in BOOLEAN : UsersQueryDone(k, ok)
    \/ \E k \in 1..Len(calls), ok \in BOOLEAN : FcmSendDone(k, ok)
    \/ \E data \in Payloads : P0_Feed(data)
    \/ \E k \in 1..Len(calls), ok \in BOOLEAN : P0_FirestoreSetDone(k, ok)
    \/ \E k \in 1..Len(calls), ok \in BOOLEAN : P0_SettingsQueryDone(k, ok)
    \/ \E k \in 1..Len(calls), ok \in BOOLEAN : P0_UsersQueryDone(k, ok)
    \/ \E k \in 1..Len(calls), ok \in BOOLEAN : P0_FcmSendDone(k, ok)
    \/ \E k \in 1..Len(calls), ok \in BOOLEAN : P0_CallDone(k, ok)
    \/ \E k \in 1..Len(calls) : P0_DelayDone(k)
    \/ P0_Tick

SpecEither == Init /\ [][NextEither]_vars

-----------------------------------------------------------------------------
(* PATCH /api/users/update of src/server.js *)

MaxPatchCalls == 3

SettingsFields ==
    {"noAeratorsLine1", "noAeratorsLine2",
     "perAerator_currentLine1", "perAerator_currentLine2"}

\* Request bodies: without deviceId, without a settings field, for a device
\* nobody is registered for, and for d1: a higher lower bound of line 1, and
\* a current per aerator of 0.
PatchBodies ==
    { [noAeratorsLine1 |-> 3],
      [deviceId |-> "d1"],
      [deviceId |-> "d2", noAeratorsLine1 |-> 3],
      [deviceId |-> "d1", noAeratorsLine1 |-> 6],
      [deviceId |-> "d1", perAerator_currentLine1 |-> 0] }

PatchPayloads ==
    { [device_id |-> "d1", line1 |-> 1],
      [device_id |-> "d1", line1 |-> 5] }

\* The updates object before updatedAt is added: the settings fields of the
\* body that are not undefined
UpdatesOf(body) == [f \in SettingsFields \cap DOMAIN body |-> body[f]]

\* Mutant of HasUpdates: a body without a settings field is accepted
HasUpdatesAlways(updates) == TRUE

\* Object.keys(updates).length is not 0
HasUpdates(updates) == DOMAIN updates # {}

\* Mutant of PatchCache: the cached entry is replaced by the updates
PatchCacheReplace(cache, deviceId, updates) == Put(cache, deviceId, updates)

\* if (!userSettingsCache[deviceId]) userSettingsCache[deviceId] = {};
\* Object.assign(userSettingsCache[deviceId], updates)
PatchCache(cache, deviceId, updates) ==
    Put(cache, deviceId,
        Assign(IF deviceId \in DOMAIN cache THEN cache[deviceId] ELSE << >>, updates))

\* res.status(code).json(...) of the PATCH handler, for its invocation k
PatchResp(k, deviceId, code, cache) ==
    [op |-> "patch", k |-> k, deviceId |-> deviceId, code |-> code,
     status |-> IF code = 200 THEN "success" ELSE "error", data |-> cache]

\* pc: "patch.get"    awaiting the users query  (line 349)
\*     "patch.commit" awaiting batch.commit()   (line 360)
\* data is req.body, updates the updates object, snapshot the docs found.
PatchCall(body) ==
    Assign(NewCall(body), [updates |-> << >>, error |-> ""])

IsPatch(c) == "updates" \in DOMAIN c

\* The handler is invoked and runs up to its first await, or answers 400.
\* The updates are requested one at a time, whatever the readings do.
PatchUsers(body) ==
    /\ Len(calls) < MaxPatchCalls
    /\ \A j \in 1..Len(calls) : IsPatch(calls[j]) => ~Running(calls[j])
    /\ LET k == Len(calls) + 1
           updates == UpdatesOf(body)
       IN IF ~Truthy(body, "deviceId")
          THEN /\ calls' = Append(calls, [PatchCall(body) EXCEPT !.pc = "done"])
               /\ resp' = PatchResp(k, "", 400, << >>)
          ELSE IF ~HasUpdates(updates)
          THEN /\ calls' = Append(calls, [PatchCall(body) EXCEPT !.pc = "done"])
               /\ resp' = PatchResp(k, body.deviceId, 400, << >>)
          ELSE /\ calls' = Append(calls,
                     [PatchCall(body) EXCEPT
                        !.pc = "patch.get",
                        !.updates = Assign(updates, [updatedAt |-> now]),
                        !.io = << [op |-> "get", to |-> body.deviceId] >>])
               /\ resp' = NoResp
    /\ UNCHANGED << now, ticks, responseControl, users, caches >>

\* The awaited call of the PATCH handler threw: the catch answers 500.
PatchReject(k) ==
    /\ calls' = [calls EXCEPT ![k].pc = "failed",
                              ![k].settled = Append(@, FALSE),
                              ![k].error = calls[k].pc]
    /\ resp' = PatchResp(k, calls[k].data.deviceId, 500, << >>)
    /\ UNCHANGED << now, ticks, responseControl, users, caches >>

\* The users query of the PATCH handler settled.
PatchQueryDone(k, ok) ==
    /\ k \in 1..Len(calls)
    /\ calls[k].pc = "patch.get"
    /\ IF ~ok THEN PatchReject(k)
       ELSE LET c == calls[k]
                docs == QueryUsers(c.data.deviceId)
            IN /\ IF docs = << >>
                  THEN /\ calls' = [calls EXCEPT ![k].pc = "done",
                                                 ![k].settled = Append(@, TRUE)]
                       /\ resp' = PatchResp(k, c.data.deviceId, 404, << >>)
                  ELSE /\ calls' = [calls EXCEPT
                             ![k].pc = "patch.commit",
                             ![k].snapshot = docs,
                             ![k].settled = Append(@, TRUE),
                             ![k].io = Append(@, [op |-> "commit", to |-> c.data.deviceId])]
                       /\ resp' = NoResp
               /\ UNCHANGED << now, ticks, responseControl, users, caches >>

\* batch.update(doc.ref, updates) for every doc of the snapshot, committed
BatchUpdate(snapshot, updates) ==
    [n \in 1..Len(users) |->
        IF \E m \in 1..Len(snapshot) : snapshot[m].id = users[n].id
        THEN Assign(users[n], updates) ELSE users[n]]

\* batch.commit() settled.  On success the cached entry is merged in place:
\* an invocation of processDeviceData suspended before its evaluation holds
\* that very object in deviceSettings and sees the merge.
PatchCommitDone(k, ok) ==
    /\ k \in 1..Len(calls)
    /\ calls[k].pc = "patch.commit"
    /\ IF ~ok THEN PatchReject(k)
       ELSE LET c == calls[k]
                d == c.data.deviceId
                merged == PatchCache(userSettingsCache, d, c.updates)
            IN /\ users' = BatchUpdate(c.snapshot, c.updates)
               /\ userSettingsCache' = merged
               /\ calls' = [j \in 1..Len(calls) |->
                     IF j = k
                     THEN [c EXCEPT !.pc = "done", !.settled = Append(@, TRUE)]
                     ELSE IF /\ ~IsPatch(calls[j])
                             /\ calls[j].pc = "getUsers"
                             /\ calls[j].data.device_id = d
                             /\ d \in DOMAIN userSettingsCache
                          THEN [calls[j] EXCEPT !.deviceSettings = << merged[d] >>]
                          ELSE calls[j]]
               /\ resp' = PatchResp(k, d, 200, merged[d])
               /\ UNCHANGED << now, ticks, responseControl, liveDataCache, historyCache,
                               alertStateCache >>

\* Readings of d1 fed one at a time, settings updates at any moment.
FeedPatch(data) ==
    /\ \A k \in 1..Len(calls) : IsPatch(calls[k]) \/ ~Running(calls[k])
    /\ Len(calls) < MaxPatchCalls
    /\ Invoke(data)

NextPatch ==
    \/ \E data \in PatchPayloads : FeedPatch(data)
    \/ \E k \in 1..Len(calls), ok \in BOOLEAN : FirestoreSetDone(k, ok)
    \/ \E k \in 1..Len(calls), ok \in BOOLEAN : SettingsQueryDone(k, ok)
    \/ \E k \in 1..Len(calls), ok \in BOOLEAN : UsersQueryDone(k, ok)
    \/ \E k \in 1..Len(calls), ok \in BOOLEAN : FcmSendDone(k, ok)
    \/ \E body \in PatchBodies : PatchUsers(body)
    \/ \E k \in 1..Len(calls), ok \in BOOLEAN : PatchQueryDone(k, ok)
    \/ \E k \in 1..Len(calls), ok \in BOOLEAN : PatchCommitDone(k, ok)

SpecPatch == Init /\ [][NextPatch]_vars

-----------------------------------------------------------------------------
(* The evaluator on its own: one reading of d1 is about to be evaluated,
   for every reading and every settings entry of a bounded range.  The
   invocation of server.js is suspended at line 133, that of part_000 at
   line 144 with the settings cached. *)

MaxLine == 4

EvalLines1 == -3..MaxLine

EvalLines2 == {-1, 0, 3}

\* A field that is absent or has one of the values
Optional(f, values) == { << >> } \cup { [x \in {f} |-> v] : v \in values }

\* The entries the lazy load and the update command can leave in the cache:
\* each threshold absent or set, one of them at least set
EvalSettings ==
    { Assign(Assign(a, b), Assign(c, d)) :
        a \in Optional("noAeratorsLine1", {0, 1, 2}),
        b \in Optional("perAerator_currentLine1", {0, 1, 2, -2}),
        c \in Optional("noAeratorsLine2", {1}),
        d \in Optional("perAerator_currentLine2", {2}) } \ { << >> }

EvalPrograms == {"server.js", "part_000"}

\* The invocation as it is just before the evaluation
EvalCall(program, data, formatted, deviceSettings) ==
    LET c == [pc               |-> "getUsers",
              data             |-> data,
              formatted        |-> << formatted >>,
              deviceSettings   |-> << deviceSettings >>,
              snapshot         |-> << >>,
              alertMsg         |-> << >>,
              deviceAlertState |-> << >>,
              i                |-> 0,
              alertSent        |-> FALSE,
              noAlertNeeded    |-> TRUE,
              io               |-> << [op |-> "set", to |-> data.device_id],
                                      [op |-> "get", to |-> data.device_id] >>,
              settled          |-> << TRUE >>,
              logs             |-> << "stored" >>,
              startedWhile     |-> {},
              error            |-> ""]
    IN IF program = "server.js" THEN c
       ELSE Assign(c, [pc |-> "p0.set", deviceSettings |-> << >>,
                       io |-> << [op |-> "set", to |-> data.device_id] >>,
                       settled |-> << >>, logs |-> << >>,
                       alertTriggered |-> FALSE, n |-> 0, timer |-> 0])

InitEval ==
    /\ now = 0
    /\ ticks = 0
    /\ responseControl = << >>
    /\ users = InitUsers
    /\ alertStateCache = << >>
    /\ resp = NoResp
    /\ \E line1 \in EvalLines1, line2 \in EvalLines2,
          deviceSettings \in EvalSettings, program \in EvalPrograms :
          LET data == [device_id |-> "d1", line1 |-> line1, line2 |-> line2]
              formatted == IF program = "server.js"
                           THEN FormatData("d1", data, << >>)
                           ELSE P0_FormatData("d1", data)
          IN /\ userSettingsCache = [x \in {"d1"} |-> deviceSettings]
             /\ calls = << EvalCall(program, data, formatted, deviceSettings) >>
             /\ IF program = "server.js"
                THEN /\ liveDataCache =
                           [x \in {"d1"} |-> [data |-> formatted, lastUpdated |-> 0]]
                     /\ historyCache = [x \in {"d1"} |-> << formatted >>]
                ELSE /\ liveDataCache = << >>
                     /\ historyCache = << >>

NextEval ==
    \/ \E k \in 1..Len(calls), ok \in BOOLEAN : UsersQueryDone(k, ok)
    \/ \E k \in 1..Len(calls), ok \in BOOLEAN : P0_FirestoreSetDone(k, ok)

SpecEval == InitEval /\ [][NextEval]_vars

-----------------------------------------------------------------------------
(* POST /api/data of src/server.js *)

MaxHttpCalls == 2

\* The identifiers that resolve inside the handler of POST /api/data: its
\* parameters and the bindings of the module
PostDataScope ==
    {"req", "res", "express", "admin", "cors", "PORT", "TWO_DAYS",
     "serviceAccount", "firestore", "app", "getFormattedTimestamp", "log",
     "formatData", "liveDataCache", "historyCache", "userSettingsCache",
     "alertStateCache", "mqtt", "MQTT_BROKER", "MQTT_TOPIC", "mqttClient",
     "processDeviceData", "publishCommand", "responseControl"}

\* The handler runs up to its first await, or to the response.  Line 239
\* evaluates responseControl[device_id] first: an identifier that does not
\* resolve throws a ReferenceError, which the catch of line 259 answers with
\* 500; only past that line is processDeviceData invoked (line 242).
PostData(body) ==
    IF "device_id" \in PostDataScope
    THEN /\ Len(calls) < MaxHttpCalls
         /\ Invoke(body)
    ELSE /\ resp' = [op |-> "post", body |-> body, code |-> 500,
                     status |-> "error", error |-> "device_id is not defined"]
         /\ UNCHANGED << now, ticks, responseControl, users, caches, calls >>

FeedHttp(data) ==
    /\ NoneRunning
    /\ Len(calls) < MaxHttpCalls
    /\ Invoke(data)

\* Both transports: readings delivered over MQTT one at a time, and posted
\* over HTTP at any moment.
NextHttp ==
    \/ \E data \in Payloads : FeedHttp(data)
    \/ \E k \in 1..Len(calls), ok \in BOOLEAN : FirestoreSetDone(k, ok)
    \/ \E k \in 1..Len(calls), ok \in BOOLEAN : SettingsQueryDone(k, ok)
    \/ \E k \in 1..Len(calls), ok \in BOOLEAN : UsersQueryDone(k, ok)
    \/ \E k \in 1..Len(calls), ok \in BOOLEAN : FcmSendDone(k, ok)
    \/ \E body \in Payloads : PostData(body)

SpecHttp == Init /\ [][NextHttp]_vars

-----------------------------------------------------------------------------
(* Concurrent readings of two devices that both have recipients *)

MaxIndepCalls == 2

\* The directory with a recipient of d2 as well.  A reading of d1 with
\* line1 = 3 is above the lower bound of d1's first record (2) and below
\* that of its second (4).
IndepUsers ==
    InitUsers \o << [id |-> "u5", deviceId |-> "d2", fcmToken |-> "t5",
                     noAeratorsLine1 |-> 3, perAerator_currentLine1 |-> 1] >>

IndepPayloads ==
    { [device_id |-> "d1", line1 |-> 1],
      [device_id |-> "d1", line1 |-> 3],
      [device_id |-> "d2", line1 |-> 1],
      [device_id |-> "d2", line1 |-> 5] }

InitIndep ==
    /\ now = 0
    /\ ticks = 0
    /\ responseControl = << >>
    /\ users = IndepUsers
    /\ liveDataCache = << >>
    /\ historyCache = << >>
    /\ userSettingsCache = << >>
    /\ alertStateCache = << >>
    /\ calls = << >>
    /\ resp = NoResp

MqttIndep(data) ==
    /\ Len(calls) < MaxIndepCalls
    /\ Invoke(data)

NextIndep ==
    \/ \E data \in IndepPayloads : MqttIndep(data)
    \/ \E k \in 1..Len(calls), ok \in BOOLEAN : FirestoreSetDone(k, ok)
    \/ \E k \in 1..Len(calls), ok \in BOOLEAN : SettingsQueryDone(k, ok)
    \/ \E k \in 1..Len(calls), ok \in BOOLEAN : UsersQueryDone(k, ok)
    \/ \E k \in 1..Len(calls), ok \in BOOLEAN : FcmSendDone(k, ok)

SpecIndep == InitIndep /\ [][NextIndep]_vars

-----------------------------------------------------------------------------
(* formatData over JSON values of any type.

   A JSON value is a record with its type: a number (num), a string (str) or
   null; `undefined` is what reading a missing key gives, and NaN what
   Number() gives for a string that is no numeral. *)

MaxValue == 1

JsNumber(n) == [type |-> "number", num |-> n, str |-> ""]

JsString(s) == [type |-> "string", num |-> 0, str |-> s]

JsNull == [type |-> "null", num |-> 0, str |-> ""]

JsUndefined == [type |-> "undefined", num |-> 0, str |-> ""]

JsNaN == [type |-> "number", num |-> 0, str |-> "NaN"]

\* obj.f
Get(obj, f) == IF f \in DOMAIN obj THEN obj[f] ELSE JsUndefined

\* v || dflt
JsOr(v, dflt) ==
    IF \/ v.type \in {"null", "undefined"}
       \/ v.type = "number" /\ (v.num = 0 \/ v = JsNaN)
       \/ v.type = "string" /\ v.str = ""
    THEN dflt ELSE v

\* v ?? dflt
JsNullish(v, dflt) == IF v.type \in {"null", "undefined"} THEN dflt ELSE v

\* The strings of the payloads, and the number each one reads as
Strings == {"abc", "7", ""}

StringToNumber(s) ==
    IF s = "" THEN JsNumber(0) ELSE IF s = "7" THEN JsNumber(7) ELSE JsNaN

\* Number(v)
ToNumber(v) ==
    IF v.type = "number" THEN v
    ELSE IF v.type = "string" THEN StringToNumber(v.str)
    ELSE IF v.type = "null" THEN JsNumber(0)
    ELSE JsNaN

\* The fields of a reading that hold measurements
NumericFields ==
    {"line1", "line2", "temperature", "turbidity", "ph", "do", "tds",
     "relay1_status", "relay2_status"}

\* formatData(device_id, payload, firestoreTimestamp) of src/server.js
FormatDataJs(device_id, payload, firestoreTimestamp) ==
    [f \in NumericFields \cup {"device_id", "timestamp"} |->
        IF f = "device_id" THEN device_id
        ELSE IF f = "timestamp" THEN JsOr(firestoreTimestamp, JsNumber(now))
        ELSE JsNullish(Get(payload, f), JsNumber(0))]

\* formatData(device_id, payload) of part_000
P0_FormatDataJs(device_id, payload) ==
    Assign(Assign(Assign([device_id     |-> device_id,
                          line1         |-> JsOr(ToNumber(Get(payload, "line1")), JsNumber(0)),
                          line2         |-> JsOr(ToNumber(Get(payload, "line2")), JsNumber(0)),
                          relay1_status |-> JsNullish(Get(payload, "relay1_status"), JsNumber(0)),
                          relay2_status |-> JsNullish(Get(payload, "relay2_status"), JsNumber(0))],
                         payload),
                  [f \in DOMAIN HARDCODED_SENSORS |-> JsNumber(HARDCODED_SENSORS[f])]),
           [timestamp |-> JsNumber(now)])

\* The values a field of an inbound JSON body may hold
FieldValues ==
    {JsNumber(n) : n \in 0..MaxValue} \cup {JsString(s) : s \in Strings} \cup {JsNull}

\* Inbound bodies of d1: line1, relay1_status, temperature and timestamp are
\* each missing or hold any value
FormatPayloads ==
    LET fields == {"line1", "relay1_status", "temperature", "timestamp"}
    IN UNION { { Assign([device_id |-> JsString("d1")], p) : p \in [present -> FieldValues] } :
               present \in SUBSET fields }

FormatInstants == {2, 3}

\* processDeviceData up to the reading it stores: the validation and the
\* call of formatData (program "server.js": lines 83-86; "part_000": lines
\* 135-139)
InitFormat ==
    /\ now \in FormatInstants
    /\ ticks = 0
    /\ responseControl = << >>
    /\ users = InitUsers
    /\ liveDataCache = << >>
    /\ historyCache = << >>
    /\ userSettingsCache = << >>
    /\ alertStateCache = << >>
    /\ \E program \in {"server.js", "part_000"}, data \in FormatPayloads :
          calls = << [pc |-> "format", program |-> program, data |-> data,
                      formatted |-> << >>] >>
    /\ resp = NoResp

FormatStep ==
    /\ calls[1].pc = "format"
    /\ calls[1].program = "server.js"
    /\ calls' = << [calls[1] EXCEPT
                      !.pc = "formatted",
                      !.formatted = << FormatDataJs(calls[1].data.device_id,
                                                    calls[1].data, JsUndefined) >>] >>
    /\ UNCHANGED << now, ticks, responseControl, users, caches, resp >>

P0_FormatStep ==
    /\ calls[1].pc = "format"
    /\ calls[1].program = "part_000"
    /\ calls' = << [calls[1] EXCEPT
                      !.pc = "formatted",
                      !.formatted = << P0_FormatDataJs(calls[1].data.device_id,
                                                       calls[1].data) >>] >>
    /\ UNCHANGED << now, ticks, responseControl, users, caches, resp >>

NextFormat ==
    \/ FormatStep
    \/ P0_FormatStep

SpecFormat == InitFormat /\ [][NextFormat]_vars

-----------------------------------------------------------------------------
(* Concurrent readings of one device in part_000: a dispatch takes minutes
   (two calls, 60 s after each), readings arrive meanwhile *)

MaxP0Calls == 3

P0Payloads ==
    { [device_id |-> "d1", line1 |-> 1],
      [device_id |-> "d1", line1 |-> 5] }

P0_MqttMessage(data) ==
    /\ Len(calls) < MaxP0Calls
    /\ P0_Invoke(data)

NextP0 ==
    \/ \E data \in P0Payloads : P0_MqttMessage(data)
    \/ \E k \in 1..Len(calls), ok \in BOOLEAN : P0_FirestoreSetDone(k, ok)
    \/ \E k \in 1..Len(calls), ok \in BOOLEAN : P0_SettingsQueryDone(k, ok)
    \/ \E k \in 1..Len(calls), ok \in BOOLEAN : P0_UsersQueryDone(k, ok)
    \/ \E k \in 1..Len(calls), ok \in BOOLEAN : P0_FcmSendDone(k, ok)
    \/ \E k \in 1..Len(calls), ok \in BOOLEAN : P0_CallDone(k, ok)
    \/ \E k \in 1..Len(calls) : P0_DelayDone(k)
    \/ P0_Tick

SpecP0 == Init /\ [][NextP0]_vars

-----------------------------------------------------------------------------
(* POST /api/control-response and POST /api/data of part_000 *)

MaxP0HttpCalls == 2

\* Bodies of POST /api/control-response: complete ones, and ones without a
\* deviceId, without a code, and with the code 0
ControlBodies ==
    { [deviceId |-> "d1", code |-> 503],
      [deviceId |-> "d1", code |-> 0],
      [deviceId |-> "d1"],
      [code |-> 503] }

\* Bodies of POST /api/data
P0HttpPayloads ==
    { [line1 |-> 1],
      [device_id |-> "d1", line1 |-> 1],
      [device_id |-> "d1", line1 |-> 5] }

\* POST /api/control-response
P0_ControlResponse(body) ==
    /\ IF ~Truthy(body, "deviceId") \/ OrField(body, "code", 0) = 0
       THEN /\ resp' = [op |-> "control", body |-> body, code |-> 400,
                        status |-> "error"]
            /\ UNCHANGED responseControl
       ELSE /\ responseControl' =
                  Put(responseControl, body.deviceId, [code |-> body.code])
            /\ resp' = [op |-> "control", body |-> body, code |-> 200,
                        status |-> "success"]
    /\ UNCHANGED << now, ticks, users, caches, calls >>

\* responseControl[device_id], << >> for undefined
ControlOf(body) ==
    IF "device_id" \in DOMAIN body /\ body.device_id \in DOMAIN responseControl
    THEN << responseControl[body.device_id] >> ELSE << >>

\* POST /api/data up to the first await of processDeviceData: the response
\* code is chosen and the registered one deleted (lines 316-324), then
\* processDeviceData is called.  control is what responseControl[device_id]
\* was, respCode the local variable.
P0_PostData(body) ==
    /\ Len(calls) < MaxP0HttpCalls
    /\ LET control == ControlOf(body)
       IN /\ responseControl' =
                IF control # << >>
                THEN [d \in (DOMAIN responseControl) \ {body.device_id} |->
                         responseControl[d]]
                ELSE responseControl
          /\ calls' = Append(calls,
                Assign(P0_Started(body),
                       [control   |-> control,
                        respCode  |-> IF control # << >>
                                      THEN OrField(control[1], "code", 200)
                                      ELSE 200,
                        responded |-> FALSE]))
    /\ resp' = NoResp
    /\ UNCHANGED << now, ticks, users, caches >>

\* The handler goes on after await processDeviceData(req.body, "http"):
\* res.status(respCode).json(...) when it returned, the catch's
\* res.status(500).json(...) when it threw.
P0_PostDataRespond(k) ==
    /\ k \in 1..Len(calls)
    /\ "responded" \in DOMAIN calls[k]
    /\ ~calls[k].responded
    /\ ~Running(calls[k])
    /\ calls' = [calls EXCEPT ![k].responded = TRUE]
    /\ resp' = IF calls[k].pc = "done"
               THEN [op |-> "post", k |-> k, code |-> calls[k].respCode,
                     status |-> "success"]
               ELSE [op |-> "post", k |-> k, code |-> 500, status |-> "error"]
    /\ UNCHANGED << now, ticks, users, caches, responseControl >>

NextP0Http ==
    \/ \E body \in ControlBodies : P0_ControlResponse(body)
    \/ \E body \in P0HttpPayloads : P0_PostData(body)
    \/ \E k \in 1..Len(calls) : P0_PostDataRespond(k)
    \/ \E k \in 1..Len(calls), ok \in BOOLEAN : P0_FirestoreSetDone(k, ok)
    \/ \E k \in 1..Len(calls), ok \in BOOLEAN : P0_SettingsQueryDone(k, ok)
    \/ \E k \in 1..Len(calls), ok \in BOOLEAN : P0_UsersQueryDone(k, ok)
    \/ \E k \in 1..Len(calls), ok \in BOOLEAN : P0_FcmSendDone(k, ok)
    \/ \E k \in 1..Len(calls), ok \in BOOLEAN : P0_CallDone(k, ok)
    \/ \E k \in 1..Len(calls) : P0_DelayDone(k)
    \/ P0_Tick

SpecP0Http == Init /\ [][NextP0Http]_vars

-----------------------------------------------------------------------------
(* The MQTT message handler of src/server.js with raw messages *)

MaxBusCalls == 2

\* What message.toString() may hold: text that is no JSON, the JSON value
\* null, and the JSON objects of Payloads
BusMessages ==
    { [kind |-> "text"], [kind |-> "null"] }
       \cup { [kind |-> "object", value |-> data] : data \in Payloads }

\* mqttClient.on("message"): JSON.parse throws a SyntaxError on text that
\* is no JSON; processDeviceData(null) throws a TypeError at data.device_id;
\* both end in the handler's catch, as every rejection of processDeviceData
\* does.
MqttBusMessage(message) ==
    /\ Len(calls) < MaxBusCalls
    /\ IF message.kind = "object" THEN Invoke(message.value)
       ELSE /\ calls' = Append(calls,
                  [NewCall(<< >>) EXCEPT
                      !.error = IF message.kind = "text" THEN "SyntaxError"
                                ELSE "TypeError"])
            /\ resp' = Caught
            /\ UNCHANGED << now, ticks, responseControl, users, caches >>

NextBus ==
    \/ \E message \in BusMessages : MqttBusMessage(message)
    \/ \E k \in 1..Len(calls), ok \in BOOLEAN : FirestoreSetDone(k, ok)
    \/ \E k \in 1..Len(calls), ok \in BOOLEAN : SettingsQueryDone(k, ok)
    \/ \E k \in 1..Len(calls), ok \in BOOLEAN : UsersQueryDone(k, ok)
    \/ \E k \in 1..Len(calls), ok \in BOOLEAN : FcmSendDone(k, ok)

SpecBus == Init /\ [][NextBus]_vars

-----------------------------------------------------------------------------
(* The ingestion pipeline of server.js with concurrent invocations and a    *)
(* clock that may jump by more than the history window.  The durable write  *)
(* of a reading settles or is rejected within the deadline of the database  *)
(* client, which is minutes: the clock jumps only while no write is         *)
(* pending.                                                                 *)

MaxWindowCalls == 2

WindowPayloads ==
    { [device_id |-> "d1", line1 |-> 1],
      [device_id |-> "d1", line1 |-> 5],
      [device_id |-> "d2", line1 |-> 1] }

WindowTickSteps == {TWO_DAYS + 1}

NoWritePending == \A k \in 1..Len(calls) : calls[k].pc # "set"

MqttWindow(data) ==
    /\ Len(calls) < MaxWindowCalls
    /\ Invoke(data)

IdleTick(dt) ==
    /\ NoWritePending
    /\ Tick(dt)

NextWindow ==
    \/ \E data \in WindowPayloads : MqttWindow(data)
    \/ \E k \in 1..Len(calls), ok \in BOOLEAN : FirestoreSetDone(k, ok)
    \/ \E k \in 1..Len(calls), ok \in BOOLEAN : SettingsQueryDone(k, ok)
    \/ \E k \in 1..Len(calls), ok \in BOOLEAN : UsersQueryDone(k, ok)
    \/ \E k \in 1..Len(calls), ok \in BOOLEAN : FcmSendDone(k, ok)
    \/ \E dt \in WindowTickSteps : IdleTick(dt)

SpecWindow == Init /\ [][NextWindow]_vars

-----------------------------------------------------------------------------
(* The settings update next to an ingestion, with the directory lookup of   *)
(* the cache miss in two steps: the directory evaluates the query (the      *)
(* records it finds are those of that moment), and later the result reaches *)
(* the process and the invocation resumes at line 119.  A commit can fall   *)
(* between the two.                                                         *)

MaxStaleCalls == 3

\* Updates of d1's lower bound of line 1, which the directory holds as 2
StaleBodies ==
    { [deviceId |-> "d1", noAeratorsLine1 |-> 6],
      [deviceId |-> "d1", noAeratorsLine1 |-> 3] }

StalePayloads ==
    { [device_id |-> "d1", line1 |-> 1],
      [device_id |-> "d1", line1 |-> 5] }

\* Readings fed one at a time, settings updates at any moment
FeedStale(data) ==
    /\ \A k \in 1..Len(calls) : IsPatch(calls[k]) \/ ~Running(calls[k])
    /\ Len(calls) < MaxStaleCalls
    /\ Invoke(data)

PatchStale(body) ==
    /\ Len(calls) < MaxStaleCalls
    /\ PatchUsers(body)

\* The directory evaluated the query of line 114-117
SettingsQueryRead(k) ==
    /\ k \in 1..Len(calls)
    /\ calls[k].pc = "getSettings"
    /\ calls' = [calls EXCEPT
          ![k].pc = "getSettings.read",
          ![k].snapshot = QueryUsers(calls[k].data.device_id)]
    /\ resp' = NoResp
    /\ UNCHANGED << now, ticks, responseControl, users, caches >>

\* The result reached the process: the await of line 114 settled
SettingsQueryDelivered(k, ok) ==
    /\ k \in 1..Len(calls)
    /\ calls[k].pc = "getSettings.read"
    /\ IF ~ok THEN Reject(k)
       ELSE SettingsResolved(k, calls[k].snapshot)

NextStale ==
    \/ \E data \in StalePayloads : FeedStale(data)
    \/ \E k \in 1..Len(calls), ok \in BOOLEAN : FirestoreSetDone(k, ok)
    \/ \E k \in 1..Len(calls) : SettingsQueryRead(k)
    \/ \E k \in 1..Len(calls), ok \in BOOLEAN : SettingsQueryDelivered(k, ok)
    \/ \E k \in 1..Len(calls), ok \in BOOLEAN : UsersQueryDone(k, ok)
    \/ \E k \in 1..Len(calls), ok \in BOOLEAN : FcmSendDone(k, ok)
    \/ \E body \in StaleBodies : PatchStale(body)
    \/ \E k \in 1..Len(calls), ok \in BOOLEAN : PatchQueryDone(k, ok)
    \/ \E k \in 1..Len(calls), ok \in BOOLEAN : PatchCommitDone(k, ok)

SpecStale == Init /\ [][NextStale]_vars

-----------------------------------------------------------------------------
(* Readings and settings updates of server.js run one at a time: a message  *)
(* or a request is delivered only when every earlier handler has finished.  *)

MaxTurnCalls == 3

FeedTurn(data) ==
    /\ NoneRunning
    /\ Len(calls) < MaxTurnCalls
    /\ Invoke(data)

PatchTurn(body) ==
    /\ NoneRunning
    /\ Len(calls) < MaxTurnCalls
    /\ PatchUsers(body)

NextTurn ==
    \/ \E data \in PatchPayloads : FeedTurn(data)
    \/ \E k \in 1..Len(calls), ok \in BOOLEAN : FirestoreSetDone(k, ok)
    \/ \E k \in 1..Len(calls), ok \in BOOLEAN : SettingsQueryDone(k, ok)
    \/ \E k \in 1..Len(calls), ok \in BOOLEAN : UsersQueryDone(k, ok)
    \/ \E k \in 1..Len(calls), ok \in BOOLEAN : FcmSendDone(k, ok)
    \/ \E body \in PatchBodies : PatchTurn(body)
    \/ \E k \in 1..Len(calls), ok \in BOOLEAN : PatchQueryDone(k, ok)
    \/ \E k \in 1..Len(calls), ok \in BOOLEAN : PatchCommitDone(k, ok)

SpecTurn == Init /\ [][NextTurn]_vars

-----------------------------------------------------------------------------
(* Vocabulary of the properties *)

Calls == 1..Len(calls)

\* The device of invocation k; "" when the payload names none
DeviceOf(k) ==
    IF "device_id" \in DOMAIN calls[k].data THEN calls[k].data.device_id ELSE ""

\* The reading of invocation k went through the alert evaluation
Evaluated(k) == calls[k].deviceAlertState # << >>

\* The evaluation of invocation k found a violation
Violating(k) == Evaluated(k) /\ calls[k].alertMsg # << >>

\* The recipients invocation k has sent a push to, in the order of the sends
SendsOf(k) ==
    LET sends == SelectSeq(calls[k].io, LAMBDA x : x.op = "send")
    IN [n \in 1..Len(sends) |-> sends[n].to]

\* The outcome of the n-th external call of invocation k
Outcome(k, n) == calls[k].settled[n]

\* How many times invocation k logged the event
Logged(k, event) == Len(SelectSeq(calls[k].logs, LAMBDA x : x = event))

\* The device's alert state is Active
Active(d) == d \in DOMAIN alertStateCache /\ alertStateCache[d].active

\* The evaluated invocations of k's device before k, and the last of them (0: none)
EvaluatedBefore(k) ==
    {j \in Calls : j < k /\ DeviceOf(j) = DeviceOf(k) /\ Evaluated(j)}

PrevEvaluated(k) ==
    IF EvaluatedBefore(k) = {} THEN 0
    ELSE CHOOSE j \in EvaluatedBefore(k) : \A i \in EvaluatedBefore(k) : i <= j

\* k is the last evaluated invocation of its device
LastEvaluated(k) ==
    /\ Evaluated(k)
    /\ ~\E j \in Calls : j > k /\ DeviceOf(j) = DeviceOf(k) /\ Evaluated(j)

\* Invocation k found its device Inactive: it is the first evaluated reading
\* of the device, or the one before did not violate
AfterInactive(k) == PrevEvaluated(k) = 0 \/ ~Violating(PrevEvaluated(k))

\* The ids of the device's recipient records that have a push token, in
\* record order
TokenRecipients(d) ==
    LET docs == SelectSeq(users, LAMBDA u : u.deviceId = d /\ "fcmToken" \in DOMAIN u
                                             /\ u.fcmToken # "")
    IN [n \in 1..Len(docs) |-> docs[n].id]

IsPrefix(s, t) == Len(s) <= Len(t) /\ \A n \in 1..Len(s) : s[n] = t[n]

-----------------------------------------------------------------------------
(* C1: with readings fed one at a time, a violating reading of a device whose
   state is Inactive (the first evaluated reading of the device, or the
   reading after a non-violating one) sends pushes, a violating reading that
   follows a violating one sends nothing, and after either the state is
   Active. *)
C1_SequentialDedupe ==
    \A k \in Calls :
        (calls[k].pc = "done" /\ Violating(k)) =>
            /\ AfterInactive(k) => SendsOf(k) # << >>
            /\ ~AfterInactive(k) => SendsOf(k) = << >>
            /\ LastEvaluated(k) => Active(DeviceOf(k))

\* Three consecutive violating readings of one device have been processed:
\* the first one dispatched, the state is Active.
C1_Witness ==
    /\ Len(calls) = 3
    /\ \A k \in Calls : calls[k].pc = "done" /\ Violating(k) /\ DeviceOf(k) = "d1"
    /\ SendsOf(1) # << >>
    /\ Active("d1")

(* C2: if a second violating reading of a device is invoked while a first
   violating one is suspended on an external call, pushes are sent for at
   most one of the two. *)
C2_ConcurrentDedupe ==
    \A j, k \in Calls :
        (/\ j \in calls[k].startedWhile
         /\ DeviceOf(j) = DeviceOf(k)
         /\ Violating(j) /\ Violating(k))
        => ~(SendsOf(j) # << >> /\ SendsOf(k) # << >>)

(* C3: with readings fed one at a time, a non-violating reading processed
   while the state is Active logs exactly one recovered event, sends no push
   and leaves the state Inactive; the violating reading after it dispatches
   again. *)
C3_Recovery ==
    \A k \in Calls :
        (calls[k].pc = "done" /\ Evaluated(k)) =>
            /\ (~Violating(k) /\ ~AfterInactive(k)) =>
                   /\ Logged(k, "recovered") = 1
                   /\ SendsOf(k) = << >>
                   /\ LastEvaluated(k) => ~Active(DeviceOf(k))
            /\ (/\ Violating(k)
                /\ PrevEvaluated(k) # 0
                /\ calls[PrevEvaluated(k)].pc = "done"
                /\ Logged(PrevEvaluated(k), "recovered") = 1) => SendsOf(k) # << >>

\* A violating reading dispatched, the next reading recovered, and the
\* violating reading after that dispatched again.
C3_Witness ==
    /\ Len(calls) = 3
    /\ \A k \in Calls : calls[k].pc = "done" /\ Evaluated(k) /\ DeviceOf(k) = "d1"
    /\ Violating(1) /\ ~Violating(2) /\ Violating(3)
    /\ Logged(2, "recovered") = 1
    /\ SendsOf(1) # << >> /\ SendsOf(2) = << >> /\ SendsOf(3) # << >>

(* C4: a push is sent only by an invocation whose reading violates and
   which found the device Inactive; and the evaluation of a non-violating
   reading of an Inactive device leaves the device Inactive, logs nothing and
   sends nothing. *)
C4_PushOnlyOnNewAlert ==
    [][\A k \in 1..Len(calls') :
          /\ SendsOf(k)' # << >> =>
                 /\ calls'[k].alertMsg # << >>
                 /\ ~calls'[k].deviceAlertState[1].active
          /\ (/\ k <= Len(calls)
              /\ ~Evaluated(k) /\ Evaluated(k)'
              /\ calls'[k].alertMsg = << >>
              /\ ~Active(DeviceOf(k))) =>
                 /\ ~Active(DeviceOf(k))'
                 /\ calls'[k].logs = calls[k].logs
                 /\ SendsOf(k)' = << >>]_vars

\* A violating reading found the device already Active and returned without
\* a send, and the invocation that made the device Active has sent.
C4_Witness ==
    \E j, k \in Calls :
        /\ j # k
        /\ SendsOf(j) # << >>
        /\ calls[k].pc = "done"
        /\ Violating(k)
        /\ calls[k].deviceAlertState[1].active
        /\ SendsOf(k) = << >>

(* C5: a device's history lists its readings in timestamp order: a reading
   with a smaller timestamp is never behind one with a larger timestamp. *)
C5_HistoryOrder ==
    \A d \in DOMAIN historyCache :
        \A m, n \in 1..Len(historyCache[d]) :
            historyCache[d][m].timestamp < historyCache[d][n].timestamp => m < n

(* C6: at the instant of a put to device d (its live entry is stamped with
   the current instant), no element of the device's history is older than
   48 hours. *)
C6_HistoryEviction ==
    \A d \in DOMAIN liveDataCache :
        liveDataCache[d].lastUpdated = now =>
            \A n \in 1..Len(historyCache[d]) :
                historyCache[d][n].timestamp >= now - 48 * 60 * 60 * 1000

\* A put has just evicted an earlier reading of the same device and kept
\* its own.
C6_Witness ==
    \E j, k \in Calls :
        /\ j < k
        /\ DeviceOf(j) = "d1" /\ DeviceOf(k) = "d1"
        /\ Len(calls[j].settled) >= 1 /\ Outcome(j, 1)
        /\ Len(calls[k].settled) >= 1 /\ Outcome(k, 1)
        /\ liveDataCache["d1"].lastUpdated = now
        /\ historyCache["d1"] = << calls[k].formatted[1] >>
        /\ calls[j].formatted[1].timestamp < now - 48 * 60 * 60 * 1000

(* C7: the live read answers 200 with status ok and the cached reading if
   and only if the device has a live entry that is at most 30000 ms old, and
   with status no_data otherwise. *)
C7_LiveRead ==
    resp.op = "live" =>
        LET d == resp.deviceId
            fresh == d \in DOMAIN liveDataCache
                     /\ now - liveDataCache[d].lastUpdated <= 30000
        IN /\ resp.code = 200
           /\ resp.status = IF fresh THEN "ok" ELSE "no_data"
           /\ fresh => resp.data = << liveDataCache[d].data >>
           /\ ~fresh => resp.data = << >>

\* A live read has answered ok for an entry exactly 30000 ms old.
C7_Witness ==
    /\ resp.op = "live"
    /\ resp.status = "ok"
    /\ now - liveDataCache[resp.deviceId].lastUpdated = 30000

(* C8: an invocation whose payload has no device_id, or an empty one, throws
   "device_id required" at once: it issues no external call, formats and
   evaluates nothing, and its step leaves the four caches unchanged. *)
C8_Validation ==
    [][\A k \in 1..Len(calls') :
          (DeviceOf(k)' = "") =>
              /\ calls'[k].pc = "failed"
              /\ calls'[k].error = "device_id required"
              /\ calls'[k].io = << >>
              /\ calls'[k].formatted = << >>
              /\ ~Evaluated(k)'
              /\ k > Len(calls) => caches' = caches]_vars

\* One payload without device_id and one with an empty device_id were refused.
C8_Witness ==
    \E j, k \in Calls :
        /\ "device_id" \notin DOMAIN calls[j].data
        /\ "device_id" \in DOMAIN calls[k].data /\ calls[k].data.device_id = ""
        /\ calls[j].pc = "failed" /\ calls[k].pc = "failed"

(* C9: when the durable write of a valid reading fails, the reading is in
   the live cache and in the history cache of its device all the same. *)
C9_CachedDespiteWriteFailure ==
    [][\A k \in 1..Len(calls) :
          (calls[k].pc = "set" /\ calls'[k].pc = "failed") =>
              LET d == DeviceOf(k)
                  formatted == calls[k].formatted[1]
              IN /\ d \in DOMAIN liveDataCache'
                 /\ liveDataCache'[d].data = formatted
                 /\ d \in DOMAIN historyCache'
                 /\ \E n \in 1..Len(historyCache'[d]) : historyCache'[d][n] = formatted]_vars

\* The outcome of the n-th push send of invocation k (the sends are the last
\* external calls of an invocation)
SendOutcome(k, n) ==
    Outcome(k, Len(calls[k].io) - Len(SendsOf(k)) + n)

(* C10: an invocation that takes the new-alert transition sends to the
   recipients of its device that have a token, one send each, in record
   order, whichever sends fail: while it runs its sends are a prefix of that
   list, and when it has returned they are the whole list. *)
C10_FailureIsolation ==
    \A k \in Calls :
        (Violating(k) /\ ~calls[k].deviceAlertState[1].active) =>
            /\ IsPrefix(SendsOf(k), TokenRecipients(DeviceOf(k)))
            /\ calls[k].pc = "done" => SendsOf(k) = TokenRecipients(DeviceOf(k))

\* A dispatch whose first send failed went on to the second recipient with
\* a token, skipping the one without.
C10_Witness ==
    \E k \in Calls :
        /\ calls[k].pc = "done"
        /\ SendsOf(k) = << "u1", "u3" >>
        /\ ~SendOutcome(k, 1)
        /\ SendOutcome(k, 2)

(* C11: a failed push send or voice call never makes processDeviceData
   throw: an invocation throws only at the validation, the durable write or
   a directory query; and an invocation all of whose push sends and voice
   calls failed (there being at least one) has returned normally with the
   formatted reading, which is in the live cache and in the history. *)
Notifications(k) ==
    {n \in 1..Len(calls[k].io) : calls[k].io[n].op \in {"send", "call"}}

AllNotificationsFailed(k) ==
    /\ Notifications(k) # {}
    /\ Len(calls[k].settled) = Len(calls[k].io)
    /\ \A n \in Notifications(k) : ~calls[k].settled[n]

C11_NotificationFailuresSwallowed ==
    \A k \in Calls :
        /\ calls[k].pc = "failed" =>
               calls[k].error \in {"device_id required", "set", "getSettings",
                                   "getUsers", "p0.set", "p0.getSettings",
                                   "p0.getUsers"}
        /\ AllNotificationsFailed(k) =>
               /\ calls[k].pc = "done"
               /\ calls[k].error = ""
               /\ calls[k].formatted # << >>
               /\ \E n \in 1..Len(historyCache[DeviceOf(k)]) :
                      historyCache[DeviceOf(k)][n] = calls[k].formatted[1]
               /\ DeviceOf(k) \in DOMAIN liveDataCache

C11_Witness ==
    \E k \in Calls :
        /\ P0_IsCall(calls[k])
        /\ AllNotificationsFailed(k)
        /\ SendsOf(k) = << "u1", "u3" >>
        /\ Cardinality(Notifications(k)) = 4
        /\ calls[k].pc = "done"

(* C12: an invocation that returned after the durable write has queried the
   directory for settings exactly once if it found no cached settings and
   not at all if it found some (beside the settings query there is at most
   the one query for the recipients); and one that found cached settings and
   made no new-alert transition has made no directory query at all. *)
DirectoryQueries(k) ==
    Len(SelectSeq(calls[k].io, LAMBDA x : x.op = "get"))

\* The invocation found the device's settings in the cache (line 112)
CacheHit(k) ==
    /\ calls[k].deviceSettings # << >>
    /\ Logged(k, "cached") = 0

\* The invocation took the transition Inactive -> Active
NewAlert(k) == Violating(k) /\ ~calls[k].deviceAlertState[1].active

C12_SettingsLookups ==
    \A k \in Calls :
        (calls[k].pc = "done" /\ Logged(k, "stored") = 1) =>
            /\ ~CacheHit(k) => DirectoryQueries(k) \in {1, 2}
            /\ CacheHit(k) => DirectoryQueries(k) \in {0, 1}
            /\ (CacheHit(k) /\ ~NewAlert(k)) => DirectoryQueries(k) = 0

(* C13: with readings fed one at a time, as long as no reading of a device
   has found a directory record the device has no entry in userSettingsCache
   and every reading of it that passed the durable write queries the
   directory for settings; once a reading has found a record, the settings
   of that record are the cache entry, and every later reading finds them
   cached, makes no settings query and is evaluated with them. *)
\* The invocations of k's device before k that found a directory record
FoundBefore(k) ==
    {j \in Calls : j < k /\ DeviceOf(j) = DeviceOf(k) /\ Logged(j, "cached") = 1}

C13_UnresolvedRetried ==
    /\ \A d \in DeviceIds :
          (\A j \in Calls : DeviceOf(j) = d => Logged(j, "cached") = 0)
              => d \notin DOMAIN userSettingsCache
    /\ \A k \in Calls :
          Logged(k, "stored") = 1 =>
              IF FoundBefore(k) = {}
              THEN /\ ~CacheHit(k)
                   /\ Len(calls[k].io) >= 2 /\ calls[k].io[2].op = "get"
                   /\ (Len(calls[k].settled) >= 2 /\ calls[k].settled[2]
                       /\ calls[k].deviceSettings = << >>)
                          => (calls[k].pc = "done" /\ ~Evaluated(k))
              ELSE /\ CacheHit(k)
                   /\ \A j \in FoundBefore(k) :
                         calls[k].deviceSettings = calls[j].deviceSettings
                   /\ calls[k].deviceSettings[1] = userSettingsCache[DeviceOf(k)]

C13_Witness ==
    /\ Len(calls) = 3
    /\ \A k \in Calls : DeviceOf(k) = "d2" /\ calls[k].pc = "done"
    /\ Logged(1, "stored") = 1 /\ calls[1].deviceSettings = << >>
    /\ Logged(2, "cached") = 1
    /\ CacheHit(3) /\ Evaluated(3)

(* C14: the step in which PATCH /api/users/update answers 200 for device d
   leaves userSettingsCache[d] with every settings field of the request at
   its new value and every other field that was cached before (updatedAt,
   which the handler stamps itself, apart) at its old value, and with no
   further field; if there was no entry, the new one holds the fields of
   the request and updatedAt.  The entries of the other devices stay. *)
PatchAnswered(code) == resp.op = "patch" /\ resp.code = code

C14_SettingsMerge ==
    [][PatchAnswered(200)' =>
          LET d == resp'.deviceId
              body == calls[resp'.k].data
              patched == SettingsFields \cap DOMAIN body
              before == IF d \in DOMAIN userSettingsCache
                        THEN userSettingsCache[d] ELSE << >>
              after == userSettingsCache'[d]
          IN /\ patched # {}
             /\ DOMAIN after = (DOMAIN before) \cup patched \cup {"updatedAt"}
             /\ \A f \in patched : after[f] = body[f]
             /\ \A f \in (DOMAIN before) \ (patched \cup {"updatedAt"}) :
                   after[f] = before[f]
             /\ resp'.data = after
             /\ \A e \in (DOMAIN userSettingsCache') \ {d} :
                   e \in DOMAIN userSettingsCache
                   /\ userSettingsCache'[e] = userSettingsCache[e]]_vars

C14_Witness ==
    /\ PatchAnswered(200)
    /\ resp.deviceId = "d1"
    /\ calls[resp.k].data = [deviceId |-> "d1", noAeratorsLine1 |-> 6]
    /\ \E j \in Calls : j < resp.k /\ ~IsPatch(calls[j]) /\ Logged(j, "cached") = 1
    /\ userSettingsCache["d1"].noAeratorsLine1 = 6
    /\ userSettingsCache["d1"].perAerator_currentLine1 = 1

(* C15: a step of the PATCH handler changes userSettingsCache only when it
   answers 200, which it does only as the awaited batch commit resolves, all
   the directory records of the device then carrying the updates; a request
   without deviceId or without a settings field is answered 400 at once, one
   for a device without users 404, one whose query or commit fails 500, and
   these steps leave userSettingsCache unchanged. *)
\* The step is one of the PATCH handler: it starts an invocation of it or
\* moves one on
PatchStep ==
    \/ Len(calls') > Len(calls) /\ IsPatch(calls'[Len(calls')])
    \/ \E k \in 1..Len(calls) : IsPatch(calls[k]) /\ calls'[k] # calls[k]

C15_PersistedBeforeCached ==
    [][PatchStep =>
          /\ ~PatchAnswered(200)' => userSettingsCache' = userSettingsCache
          /\ PatchAnswered(200)' =>
                LET c == calls[resp'.k]
                IN /\ c.pc = "patch.commit"
                   /\ calls'[resp'.k].settled = << TRUE, TRUE >>
                   /\ \A n \in 1..Len(users') :
                         users'[n].deviceId = resp'.deviceId =>
                            \A f \in DOMAIN c.updates : users'[n][f] = c.updates[f]
          /\ Len(calls') > Len(calls) =>
                LET body == calls'[Len(calls')].data
                IN (~Truthy(body, "deviceId") \/ SettingsFields \cap DOMAIN body = {})
                      <=> PatchAnswered(400)'
          /\ PatchAnswered(404)' =>
                /\ calls[resp'.k].pc = "patch.get"
                /\ QueryUsers(resp'.deviceId) = << >>
          /\ \A k \in 1..Len(calls) :
                (IsPatch(calls[k]) /\ Running(calls[k]) /\ calls'[k].pc = "failed")
                   => (PatchAnswered(500)' /\ resp'.k = k)
          /\ (\E k \in 1..Len(calls) :
                /\ calls[k].pc = "patch.get" /\ calls'[k].pc = "done")
                   => PatchAnswered(404)']_vars

C15_Witness ==
    /\ \E k \in Calls : IsPatch(calls[k]) /\ calls[k].error = "patch.commit"
    /\ \E k \in Calls : IsPatch(calls[k]) /\ calls[k].settled = << TRUE, TRUE >>
    /\ PatchAnswered(404)
    /\ "d1" \in DOMAIN userSettingsCache
    /\ "updatedAt" \in DOMAIN userSettingsCache["d1"]

(* C16: whatever settings an invocation of processDeviceData holds, loaded
   from the directory or patched by the update command, each line is divided
   by 1 when the current per aerator is absent or 0 and by its value
   otherwise, never by 0; both active-unit counts are finite integers, and
   no invocation throws at the evaluation. *)
PerAeratorFields == {"perAerator_currentLine1", "perAerator_currentLine2"}

C16_DivideByZeroGuard ==
    \A k \in Calls :
        (~IsPatch(calls[k]) /\ calls[k].deviceSettings # << >>) =>
            LET deviceSettings == calls[k].deviceSettings[1]
                formatted == calls[k].formatted[1]
            IN /\ \A f \in PerAeratorFields :
                     /\ Divisor(deviceSettings, f) # 0
                     /\ Divisor(deviceSettings, f) =
                           IF f \in DOMAIN deviceSettings /\ deviceSettings[f] # 0
                           THEN deviceSettings[f] ELSE 1
               /\ Ratio1(formatted, deviceSettings) \notin {Infinity, -Infinity}
               /\ Ratio2(formatted, deviceSettings) \notin {Infinity, -Infinity}
               /\ OrField(deviceSettings, "perAerator_currentLine1", 0) = 0
                     => Ratio1(formatted, deviceSettings) = formatted.line1
               /\ OrField(deviceSettings, "perAerator_currentLine2", 0) = 0
                     => Ratio2(formatted, deviceSettings) = formatted.line2
               /\ calls[k].pc = "failed" =>
                     calls[k].error \in {"set", "getSettings", "getUsers"}

C16_Witness ==
    \E k \in Calls :
        /\ ~IsPatch(calls[k])
        /\ Evaluated(k)
        /\ calls[k].pc = "done"
        /\ "perAerator_currentLine1" \in DOMAIN calls[k].deviceSettings[1]
        /\ calls[k].deviceSettings[1].perAerator_currentLine1 = 0
        /\ "perAerator_currentLine2" \notin DOMAIN calls[k].deviceSettings[1]
        /\ calls[k].formatted[1].line1 = 5

(* C17: an evaluated reading names line N in its alert message if and only
   if the integer nearest to lineN / unitsPerLineN (the half rounded up, as
   Math.round does) is less than lowerBoundLineN, where unitsPerLineN is the
   cached perAerator_currentLineN, or 1 if that is absent or 0, and
   lowerBoundLineN the cached noAeratorsLineN, or 0 if that is absent; the
   message is empty if and only if no line is violated, and names the
   violated lines once each, Line1 before Line2. *)
UnitsPerLine(deviceSettings, f) ==
    IF f \in DOMAIN deviceSettings /\ deviceSettings[f] # 0
    THEN deviceSettings[f] ELSE 1

LowerBound(deviceSettings, f) ==
    IF f \in DOMAIN deviceSettings THEN deviceSettings[f] ELSE 0

\* The integer q with q - 1/2 <= n / d < q + 1/2, for d # 0
Nearest(n, d) ==
    LET num == IF d > 0 THEN n ELSE -n
        den == IF d > 0 THEN d ELSE -d
    IN CHOOSE q \in -(2 * MaxLine + 2)..(2 * MaxLine + 2) :
          (2 * q - 1) * den <= 2 * num /\ 2 * num < (2 * q + 1) * den

LineViolated(k, line, units, lower) ==
    Nearest(calls[k].formatted[1][line],
            UnitsPerLine(calls[k].deviceSettings[1], units))
       < LowerBound(calls[k].deviceSettings[1], lower)

ViolatedLines(k) ==
    (IF LineViolated(k, "line1", "perAerator_currentLine1", "noAeratorsLine1")
     THEN << "Line1" >> ELSE << >>)
    \o
    (IF LineViolated(k, "line2", "perAerator_currentLine2", "noAeratorsLine2")
     THEN << "Line2" >> ELSE << >>)

C17_Evaluator ==
    \A k \in Calls :
        Evaluated(k) =>
            /\ calls[k].alertMsg = ViolatedLines(k)
            /\ calls[k].noAlertNeeded = (ViolatedLines(k) = << >>)
            /\ (calls[k].alertMsg = << >>) <=>
                  /\ ~LineViolated(k, "line1", "perAerator_currentLine1", "noAeratorsLine1")
                  /\ ~LineViolated(k, "line2", "perAerator_currentLine2", "noAeratorsLine2")

C17_Witness ==
    /\ \E k \in Calls :
          /\ P0_IsCall(calls[k])
          /\ Evaluated(k)
          /\ calls[k].formatted[1].line1 = 1
          /\ calls[k].deviceSettings[1] =
                [noAeratorsLine1 |-> 1, perAerator_currentLine1 |-> 2,
                 noAeratorsLine2 |-> 1, perAerator_currentLine2 |-> 2]
          /\ calls[k].formatted[1].line2 = 0
          /\ calls[k].alertMsg = << "Line2" >>

(* C18: with the lower bound of line N absent or 0 in the settings, no
   value of lineN makes the evaluation name line N, and with both lower
   bounds absent or 0 no alert is raised. *)
C18_ZeroBoundNoAlarm ==
    \A k \in Calls :
        Evaluated(k) =>
            LET deviceSettings == calls[k].deviceSettings[1]
                named == {calls[k].alertMsg[n] : n \in 1..Len(calls[k].alertMsg)}
            IN /\ LowerBound(deviceSettings, "noAeratorsLine1") = 0
                     => "Line1" \notin named
               /\ LowerBound(deviceSettings, "noAeratorsLine2") = 0
                     => "Line2" \notin named

(* C19: a POST /api/data whose body carries a non-empty device_id is
   answered with a success acknowledgement, and its body has been handed to
   processDeviceData as a message-bus delivery of it would have been. *)
C19_HttpSamePipeline ==
    (resp.op = "post" /\ HasDeviceId(resp.body)) =>
        /\ resp.status = "success"
        /\ resp.code = 200
        /\ \E k \in Calls : calls[k].data = resp.body /\ calls[k].formatted # << >>

(* C20: the alertSent of an invocation of server.js processDeviceData, which
   it returns when done, is true if and only if one of its push sends has
   resolved; it is false when no dispatch ran, when the dispatch found no
   recipient with a token, and when every send was rejected. *)
SendResolved(k) ==
    \E n \in 1..Len(calls[k].settled) : calls[k].io[n].op = "send" /\ calls[k].settled[n]

C20_DispatchResult ==
    \A k \in Calls :
        ~P0_IsCall(calls[k]) =>
            /\ calls[k].alertSent <=> SendResolved(k)
            /\ (calls[k].pc = "done" /\ ~NewAlert(k)) => ~calls[k].alertSent
            /\ (calls[k].pc = "done" /\ SendsOf(k) = << >>) => ~calls[k].alertSent

C20_Witness ==
    /\ \E k \in Calls :
          /\ ~P0_IsCall(calls[k])
          /\ calls[k].pc = "done"
          /\ NewAlert(k)
          /\ calls[k].snapshot # << >>
          /\ SendsOf(k) = << >>
          /\ ~calls[k].alertSent
    /\ \E k \in Calls :
          /\ ~P0_IsCall(calls[k])
          /\ calls[k].pc = "done"
          /\ SendsOf(k) = << "u1", "u3" >>
          /\ SendOutcome(k, 1) /\ ~SendOutcome(k, 2)
          /\ calls[k].alertSent

(* C21: makeCallsSequentially calls the numbers of the escalation list in
   list order, one attempt each: the numbers an invocation has called are a
   prefix of the list, and the whole list once the escalation is over.  A
   call is attempted only when every earlier external call of the invocation
   has settled, and, when the previous call started, only from the end of its
   delay, which runs 60 s from the moment the call started (a failed attempt
   has no delay: the catch of the loop skips it).  A failed call is followed
   by the call of the next number, or by the end of the escalation after the
   last number; the escalation never makes the invocation throw. *)
NumbersCalled(c) ==
    LET placed == SelectSeq(c.io, LAMBDA x : x.op = "call")
    IN [n \in 1..Len(placed) |-> placed[n].to]

C21_Step(k) ==
    LET c == calls[k]
        after == calls'[k]
        called == NumbersCalled(c)
        calledAfter == NumbersCalled(after)
    IN /\ IsPrefix(calledAfter, ESCALATION_NUMBERS)
       /\ after.alertTriggered => calledAfter = ESCALATION_NUMBERS
       /\ Len(calledAfter) > Len(called) =>
             /\ Len(calledAfter) = Len(called) + 1
             /\ Len(after.settled) = Len(after.io) - 1
             /\ c.pc = "p0.delay" => now >= c.timer
             /\ c.pc = "p0.call" => ~after.settled[Len(after.settled)]
             /\ called # << >> => c.pc \in {"p0.delay", "p0.call"}
       /\ c.pc = "p0.call" =>
             /\ after.pc # "failed"
             /\ after.pc = "p0.delay" =>
                     after.settled[Len(after.settled)] /\ after.timer = now + CALL_DELAY
             /\ Len(after.settled) > Len(c.settled)
                  /\ ~after.settled[Len(after.settled)] =>
                     IF Len(called) < Len(ESCALATION_NUMBERS)
                     THEN after.pc = "p0.call" /\ Len(calledAfter) = Len(called) + 1
                     ELSE after.pc = "done" /\ after.alertTriggered
       /\ c.pc = "p0.delay" =>
             /\ after.pc \in {"p0.delay", "p0.call", "done"}
             /\ after.pc = "done" =>
                   after.alertTriggered /\ Len(called) = Len(ESCALATION_NUMBERS)

Entry(cache, d) == IF d \in DOMAIN cache THEN << cache[d] >> ELSE << >>

EntriesOf(d) ==
    << Entry(liveDataCache, d), Entry(historyCache, d),
       Entry(userSettingsCache, d), Entry(alertStateCache, d) >>

DeviceOfCall(c) == IF "device_id" \in DOMAIN c.data THEN c.data.device_id ELSE ""

C22_DeviceIndependence ==
    [][\A k \in 1..Len(calls') :
          (k > Len(calls) \/ calls'[k] # calls[k]) =>
              \A d \in DeviceIds \ {DeviceOfCall(calls'[k])} :
                  EntriesOf(d)' = EntriesOf(d)]_vars

\* Violating readings of d1 and d2 were processed while one another was
\* suspended; both dispatched, and d2's entries are what its own
\* invocation wrote
C22_Witness ==
    \E k, j \in Calls :
        /\ DeviceOf(k) = "d1" /\ DeviceOf(j) = "d2"
        /\ calls[k].pc = "done" /\ calls[j].pc = "done"
        /\ k \in calls[j].startedWhile
        /\ SendsOf(k) = << "u1", "u3" >> /\ SendsOf(j) = << "u5" >>
        /\ Active("d1") /\ Active("d2")
        /\ userSettingsCache["d2"].noAeratorsLine1 = 3
        /\ userSettingsCache["d1"].noAeratorsLine1 = 2
        /\ liveDataCache["d2"].data = calls[j].formatted[1]
        /\ historyCache["d2"] = << calls[j].formatted[1] >>

(* C23: a step in which GET /api/data/:deviceId or GET /api/history/:deviceId
   answers leaves the live cache, the history cache, the settings cache and
   the alert-state cache unchanged, whether or not the device is known to
   them, and neither starts nor advances any processDeviceData invocation:
   no evaluation is made and no notification is issued. *)
C23_ReadersOnlyRead ==
    [][resp'.op \in {"live", "history"} =>
          /\ UNCHANGED caches
          /\ UNCHANGED << calls, users >>]_vars

\* A read of a device the caches do not know, and, two days after it was
\* written, a live read of a device they know and hold an alert state of
C23_Witness ==
    /\ resp.op \in {"live", "history"}
    /\ Active("d1")
    /\ \/ resp.deviceId = "d2" /\ "d2" \notin DOMAIN liveDataCache
                               /\ "d2" \notin DOMAIN historyCache
       \/ resp.op = "live" /\ resp.deviceId = "d1" /\ resp.status = "no_data"

(* C24: GET /api/history/:deviceId answers 200 with the device's history
   array as the cache holds it, the same readings in the same order, whether
   or not the device is live and however old the readings are; the status is
   ok when the array is non-empty, and no_data, with an empty list, when the
   device has no array or an empty one. *)
C24_HistoryRead ==
    resp.op = "history" =>
        LET d == resp.deviceId
        IN /\ resp.code = 200
           /\ d \in DOMAIN historyCache /\ historyCache[d] # << >> =>
                 resp.status = "ok" /\ resp.data = historyCache[d]
           /\ d \notin DOMAIN historyCache \/ historyCache[d] = << >> =>
                 resp.status = "no_data" /\ resp.data = << >>

\* The window of a device that is no longer live was read, all of it
C24_Witness ==
    /\ resp.op = "history"
    /\ resp.status = "ok"
    /\ resp.data = historyCache[resp.deviceId]
    /\ Len(resp.data) = 2
    /\ now - liveDataCache[resp.deviceId].lastUpdated > LIVE_TIMEOUT

(* C25: in the reading formatData produces for a payload, each of line1,
   line2, relay1_status, relay2_status and the sensor fields is a number
   (and not NaN), and it is 0 when the payload's field is missing, null or a
   value that is no number; formatData returns a reading for every
   payload. *)
IsNumber(v) == v.type = "number" /\ v # JsNaN

C25_NormalizerLeniency ==
    \A k \in Calls :
        ("program" \in DOMAIN calls[k] /\ calls[k].pc = "formatted") =>
            /\ calls[k].formatted # << >>
            /\ \A f \in NumericFields :
                  LET given == Get(calls[k].data, f)
                      made == Get(calls[k].formatted[1], f)
                  IN /\ IsNumber(made)
                     /\ ~IsNumber(given) => made = JsNumber(0)

(* C26: the reading the pipeline formats for storing carries the payload's
   timestamp when the payload has one, and the server's current instant
   when it has none. *)
C26_TimestampPolicy ==
    \A k \in Calls :
        ("program" \in DOMAIN calls[k] /\ calls[k].pc = "formatted") =>
            calls[k].formatted[1].timestamp =
                IF "timestamp" \in DOMAIN calls[k].data
                THEN calls[k].data.timestamp
                ELSE JsNumber(now)

(* C27: a processDeviceData invocation of src/server.js has at most one
   external call in flight, the one it awaits: it issues the durable write,
   a directory query or a push send only when every earlier one has
   resolved or rejected, and when it has returned or thrown (which is when
   the MQTT handler's await ends and the reading is acknowledged) every
   external call it issued, each push send included, has resolved or
   rejected. *)
InFlight(k) == Len(calls[k].io) - Len(calls[k].settled)

C27_CompletionAfterIO ==
    \A k \in Calls :
        ~P0_IsCall(calls[k]) =>
            /\ InFlight(k) \in {0, 1}
            /\ Running(calls[k]) => InFlight(k) = 1
            /\ ~Running(calls[k]) => InFlight(k) = 0

\* A reading was acknowledged after its write, its two lookups and its two
\* sends, the first of which failed, while another reading is suspended
C27_Witness ==
    \E k, j \in Calls :
        /\ calls[k].pc = "done"
        /\ Len(calls[k].io) = 5
        /\ SendsOf(k) = << "u1", "u3" >>
        /\ calls[k].settled = << TRUE, TRUE, TRUE, FALSE, TRUE >>
        /\ Running(calls[j])

(* C28: the settings cached for a device are the four threshold fields of
   the first record the directory returns for it, a lower bound that is
   absent or 0 being 0 and a units-per-line that is absent or 0 being 1;
   every evaluation of the device's readings is made with these settings
   and names the lines that violate them, whatever the other records of the
   device hold. *)
FirstRecord(d) ==
    users[CHOOSE n \in 1..Len(users) :
             /\ users[n].deviceId = d
             /\ \A m \in 1..(n - 1) : users[m].deviceId # d]

FirstSettings(d) ==
    [f \in {"noAeratorsLine1", "noAeratorsLine2",
            "perAerator_currentLine1", "perAerator_currentLine2"} |->
        IF f \in DOMAIN FirstRecord(d) /\ FirstRecord(d)[f] # 0
        THEN FirstRecord(d)[f]
        ELSE IF f \in {"noAeratorsLine1", "noAeratorsLine2"} THEN 0 ELSE 1]

C28_FirstMatchWins ==
    /\ \A d \in DOMAIN userSettingsCache : userSettingsCache[d] = FirstSettings(d)
    /\ \A k \in Calls :
          Evaluated(k) =>
              /\ calls[k].deviceSettings = << FirstSettings(DeviceOf(k)) >>
              /\ calls[k].alertMsg = ViolatedLines(k)

\* A reading of d1 that found no cached settings was evaluated against the
\* first record's lower bound 2 and does not violate, although it is below
\* the second record's lower bound
C28_Witness ==
    \E k \in Calls :
        /\ DeviceOf(k) = "d1"
        /\ Logged(k, "cached") = 1
        /\ Evaluated(k)
        /\ calls[k].formatted[1].line1 = 3
        /\ calls[k].alertMsg = << >>
        /\ userSettingsCache["d1"].noAeratorsLine1 = 2
        /\ users[2].deviceId = "d1" /\ users[2].noAeratorsLine1 = 4

(* C29 (amended): in part_000 the step that evaluates a violating reading of
   a device whose alert state is not active marks the state active itself,
   before the recipients are looked up and before any push or call is
   issued; the step that evaluates a violating reading of a device whose
   state is active issues nothing and leaves the state alone.  At every
   moment the dispatches started for a device are as many as its recoveries,
   plus one while its state is active: one dispatch per transition from
   inactive to active, under every interleaving. *)
P0_Active(d) == d \in DOMAIN alertStateCache /\ alertStateCache[d]

P0_Dispatches(d) ==
    Cardinality({k \in Calls : DeviceOf(k) = d /\ Logged(k, "new-alert") = 1})

P0_Recoveries(d) ==
    Cardinality({k \in Calls : DeviceOf(k) = d /\ Logged(k, "recovered") = 1})

P0_Dispatching(c) == c.pc \in {"p0.getUsers", "p0.send", "p0.call", "p0.delay"}

\* The step evaluates the reading of invocation k
Evaluates(k) == P0_IsCall(calls[k]) /\ ~Evaluated(k) /\ Evaluated(k)'

C29_OneDispatchPerTransition ==
    [][/\ \A k \in Calls :
             (Evaluates(k) /\ Violating(k)') =>
                 IF P0_Active(DeviceOf(k))
                 THEN /\ calls'[k].pc = "done"
                      /\ calls'[k].io = calls[k].io
                      /\ Logged(k, "new-alert")' = 0
                      /\ ~calls'[k].alertTriggered
                      /\ UNCHANGED alertStateCache
                 ELSE /\ P0_Active(DeviceOf(k))'
                      /\ Logged(k, "new-alert")' = 1
                      /\ calls'[k].pc = "p0.getUsers"
                      /\ SendsOf(k)' = << >> /\ NumbersCalled(calls'[k]) = << >>
       /\ \A k \in Calls :
             (P0_IsCall(calls[k]) /\ Len(calls'[k].io) > Len(calls[k].io)
                 /\ calls'[k].io[Len(calls'[k].io)].op \in {"send", "call"}) =>
                 Logged(k, "new-alert") = 1
       /\ \A d \in DeviceIds :
             P0_Dispatches(d)' = P0_Recoveries(d)' + (IF P0_Active(d)' THEN 1 ELSE 0)
      ]_vars

\* A violating reading was suppressed while the dispatch of an earlier one
\* was between its two calls
C29_Witness ==
    \E j, k \in Calls :
        /\ P0_IsCall(calls[j]) /\ P0_IsCall(calls[k])
        /\ j # k /\ DeviceOf(j) = "d1" /\ DeviceOf(k) = "d1"
        /\ calls[j].pc = "p0.delay" /\ calls[j].n = 1
        /\ j \in calls[k].startedWhile
        /\ Violating(k) /\ calls[k].pc = "done"
        /\ Logged(k, "new-alert") = 0
        /\ Len(calls[k].io) = 1
        /\ P0_Active("d1")
        /\ P0_Dispatches("d1") = 1

(* C29: every violating reading of a device that is evaluated while a
   dispatch of that device is still running (between its new-alert
   detection and the end of its last call delay) is suppressed: it starts
   no dispatch of its own. *)
C29_SuppressedWhileDispatching ==
    [][\A k \in Calls :
          (/\ Evaluates(k) /\ Violating(k)'
           /\ \E j \in Calls : /\ j # k
                               /\ DeviceOf(j) = DeviceOf(k)
                               /\ P0_Dispatching(calls[j])) =>
              /\ Logged(k, "new-alert")' = 0
              /\ calls'[k].pc = "done"]_vars

(* C30: in part_000, POST /api/control-response with a deviceId and a code
   answers 200 and registers the code for the device, and with either one
   missing (or a code of 0) answers 400 and registers nothing; a POST
   /api/data that arrives for a device with a registered code removes the
   code and is answered with that code as its HTTP status, so that the next
   POST /api/data of the device finds none; a POST /api/data that found no
   registered code is answered 200 when processDeviceData succeeds. *)
Registered(d) == d \in DOMAIN responseControl

C30_OneShotResponseCode ==
    [][/\ resp'.op = "control" =>
             LET body == resp'.body
             IN IF /\ "deviceId" \in DOMAIN body /\ body.deviceId # ""
                   /\ "code" \in DOMAIN body /\ body.code # 0
                THEN /\ resp'.code = 200
                     /\ body.deviceId \in DOMAIN responseControl'
                     /\ responseControl'[body.deviceId].code = body.code
                ELSE /\ resp'.code = 400
                     /\ UNCHANGED responseControl
       /\ Len(calls') > Len(calls) =>
             LET c == calls'[Len(calls')]
                 d == DeviceOfCall(c)
             IN IF Registered(d)
                THEN /\ d \notin DOMAIN responseControl'
                     /\ c.control = << responseControl[d] >>
                ELSE /\ UNCHANGED responseControl
                     /\ c.control = << >>
       /\ resp'.op = "post" =>
             LET c == calls[resp'.k]
             IN IF c.control # << >>
                THEN resp'.code = c.control[1].code
                ELSE c.pc = "done" => resp'.code = 200
      ]_vars

(* C31: no step of the MQTT message handler of src/server.js ends the
   process.  A message that is no JSON, or whose JSON has no device_id (or
   an empty one, or is null), is refused in the step it arrives in: the
   error is logged, no external call is issued and the four caches are left
   unchanged.  Whenever an awaited call of processDeviceData rejects, the
   invocation ends with its error logged and the handler returns without
   answering anything. *)
C31_BusNeverCrashes ==
    [][/\ resp'.op # "crash"
       /\ \A k \in 1..Len(calls') :
             (k > Len(calls) /\ DeviceOfCall(calls'[k]) = "") =>
                 /\ calls'[k].pc = "failed"
                 /\ calls'[k].error # ""
                 /\ calls'[k].io = << >>
                 /\ UNCHANGED caches
       /\ \A k \in Calls :
             (Running(calls[k]) /\ calls'[k].pc = "failed") =>
                 /\ calls'[k].error # ""
                 /\ resp' = NoResp]_vars

\* After a reading was cached, a message that is no JSON was refused, and
\* an invocation has ended on a rejected directory query
C31_Witness ==
    \E j, k \in Calls :
        /\ calls[j].error = "getUsers" /\ calls[j].pc = "failed"
        /\ calls[k].error = "SyntaxError" /\ calls[k].pc = "failed"
        /\ j < k
        /\ liveDataCache # << >>
        /\ resp = NoResp

(* C32: a device has a live entry exactly when it has a history array; and
   right after a put for device d (the step that writes d's live entry) the
   history of d is not empty and its last element is the reading of the
   live entry, which is the reading the put wrote. *)
Puts(k) == Running(calls[k]) /\ Len(calls[k].settled) = 0 /\ calls'[k].settled = << TRUE >>

LiveViolating(d) == AlertMsg(liveDataCache[d].data, userSettingsCache[d]) # << >>

C33_StateReflectsLatest ==
    \A d \in DeviceIds :
        (/\ \A k \in Calls : DeviceOf(k) = d => calls[k].pc = "done"
         /\ d \in DOMAIN liveDataCache
         /\ d \in DOMAIN userSettingsCache)
        => (Active(d) <=> LiveViolating(d))

(* C34: once a settings update of device d has completed successfully, the
   cache entry of d holds the values of the last such update in every later
   state, whatever an ingestion of d that missed the cache does. *)
Committed(k) ==
    IsPatch(calls[k]) /\ calls[k].pc = "done" /\ calls[k].settled = << TRUE, TRUE >>

LastCommitted(d) ==
    LET ks == {k \in Calls : Committed(k) /\ calls[k].data.deviceId = d}
    IN IF ks = {} THEN 0 ELSE CHOOSE k \in ks : \A j \in ks : j <= k

C34_NoLostSettingsUpdate ==
    \A d \in DeviceIds :
        LastCommitted(d) # 0 =>
            LET updates == calls[LastCommitted(d)].updates
            IN /\ d \in DOMAIN userSettingsCache
               /\ \A f \in SettingsFields \cap DOMAIN updates :
                     /\ f \in DOMAIN userSettingsCache[d]
                     /\ userSettingsCache[d][f] = updates[f]

(* C35: with readings and settings updates run one at a time, the thresholds
   a reading of device d is evaluated with (the settings the invocation
   holds, with the defaults of the evaluation applied) are the four threshold
   fields of the first directory record of d with the defaults applied. *)
ThresholdsUsed(deviceSettings) ==
    [noAeratorsLine1         |-> OrField(deviceSettings, "noAeratorsLine1", 0),
     noAeratorsLine2         |-> OrField(deviceSettings, "noAeratorsLine2", 0),
     perAerator_currentLine1 |-> OrField(deviceSettings, "perAerator_currentLine1", 1),
     perAerator_currentLine2 |-> OrField(deviceSettings, "perAerator_currentLine2", 1)]

C35_CacheAgreesWithDirectory ==
    \A k \in Calls :
        (k = Len(calls) /\ ~IsPatch(calls[k]) /\ Evaluated(k)) =>
            ThresholdsUsed(calls[k].deviceSettings[1])
                = ThresholdsUsed(SettingsOf(FirstDoc(QueryUsers(DeviceOf(k)))))

(* C36: when the directory lookup of a settings cache miss answers and the
   directory holds no record of the device, the invocation returns normally
   at that step, the reading is the live entry and the last history element
   of the device, the alert states and the cached settings are unchanged,
   and the invocation has issued no push send and no voice call. *)
NoRecord(d) == \A n \in 1..Len(users) : users[n].deviceId # d

LookupAnswered(k) ==
    /\ calls[k].pc \in {"getSettings", "p0.getSettings"}
    /\ calls'[k].settled = Append(calls[k].settled, TRUE)

C36_NoSettingsNoAlerting ==
    [][\A k \in Calls :
          (LookupAnswered(k) /\ NoRecord(DeviceOf(k))) =>
              LET d == DeviceOf(k)
              IN /\ calls'[k].pc = "done"
                 /\ liveDataCache'[d].data = calls[k].formatted[1]
                 /\ historyCache'[d][Len(historyCache'[d])] = calls[k].formatted[1]
                 /\ UNCHANGED << alertStateCache, userSettingsCache >>
                 /\ \A n \in 1..Len(calls'[k].io) :
                       calls'[k].io[n].op \notin {"send", "call"}
      ]_vars

\* A reading of d2, which nobody is registered for, has returned while the
\* alert of d1 is active.
C36_Witness ==
    /\ \A k \in Calls : ~P0_IsCall(calls[k])
    /\ Active("d1")
    /\ NoRecord("d2")
    /\ \E k \in Calls :
          /\ DeviceOf(k) = "d2"
          /\ calls[k].pc = "done"
          /\ calls[k].settled = << TRUE, TRUE >>
          /\ "d2" \in DOMAIN liveDataCache
          /\ "d2" \notin DOMAIN userSettingsCache

(* C37: in part_000, when the invocation that set the alert state of device
   d (the last one that logged a new alert) has finished and the state is
   still true, that invocation has attempted a push send to every recipient
   of d that has a token. *)
C37_ActiveImpliesDispatch ==
    \A k \in Calls :
        (/\ P0_IsCall(calls[k])
         /\ Logged(k, "new-alert") = 1
         /\ ~Running(calls[k])
         /\ ~\E j \in Calls : j > k /\ DeviceOf(j) = DeviceOf(k)
                                     /\ Logged(j, "new-alert") = 1
         /\ P0_Active(DeviceOf(k)))
        => \A n \in 1..Len(TokenRecipients(DeviceOf(k))) :
              \E m \in 1..Len(SendsOf(k)) :
                  SendsOf(k)[m] = TokenRecipients(DeviceOf(k))[n]

(* C38: every reading a history read returns has a timestamp of at least
   now - 48 h at the time of the read. *)
C38_NoExpiredHistory ==
    resp.op = "history" =>
        \A n \in 1..Len(resp.data) : resp.data[n].timestamp >= now - TWO_DAYS

=============================================================================
